---- MODULE Spec2Model ----
(***************************************************************************)
(* A model of the TrueScope analysis controllers: the voice, facial and    *)
(* text scorers, the truth-score fusion and the combined analyzeAll        *)
(* endpoint, as Express route handlers.                                    *)
(*                                                                         *)
(* JavaScript numbers are modelled as exact rationals <<n, d>> with d >= 0 *)
(* (d = 0 is +/-Infinity), so a value that lands within a floating-point   *)
(* ulp of a rounding boundary may round differently in the running code.   *)
(* Strings are sequences of one-character strings.                         *)
(***************************************************************************)
EXTENDS Integers, Sequences, FiniteSets, TLC

VARIABLES pc, req, res, run, tasks, truthTask, store, env, export,
          sessionStorage, form

vars == <<pc, req, res, run, tasks, truthTask, store, env, export,
          sessionStorage, form>>

\* The state of the admin login page: the browser's sessionStorage and the
\* component's email, password and error.
loginVars == <<sessionStorage, form>>

\* The state of the session controller and of its client.
sessionVars == <<store, env, export, sessionStorage, form>>

(***************************************************************************)
(* Bounds of the model.                                                    *)
(***************************************************************************)
MaxWords == 2

MaxLenSteps == 5

(***************************************************************************)
(* Numbers.                                                                *)
(***************************************************************************)
Abs(i) == IF i < 0 THEN -i ELSE i

Sign(i) == IF i < 0 THEN -1 ELSE IF i > 0 THEN 1 ELSE 0

RECURSIVE GCD(_, _)
GCD(a, b) == IF b = 0 THEN a ELSE GCD(b, a % b)

R(n, d) ==
  IF d = 0 THEN <<Sign(n), 0>>
  ELSE LET s == IF d < 0 THEN -1 ELSE 1
           g == GCD(Abs(n), Abs(d))
       IN  <<(s * n) \div g, (s * d) \div g>>

Num(i) == <<i, 1>>

RAdd(a, b) == R(a[1] * b[2] + b[1] * a[2], a[2] * b[2])

RSub(a, b) == R(a[1] * b[2] - b[1] * a[2], a[2] * b[2])

RMul(a, b) == R(a[1] * b[1], a[2] * b[2])

RDiv(a, b) == R(a[1] * b[2], a[2] * b[1])

RLt(a, b) == a[1] * b[2] < b[1] * a[2]

RMin(a, b) == IF RLt(b, a) THEN b ELSE a

RMax(a, b) == IF RLt(a, b) THEN b ELSE a

RAbs(a) == <<Abs(a[1]), a[2]>>

IsFinite(a) == a[2] # 0

\* Math.round: the nearest integer, halves towards +Infinity.
MathRound(a) == (2 * a[1] + a[2]) \div (2 * a[2])

\* Math.round on a value that may be infinite; the result stays a number.
MathRoundNum(a) == IF IsFinite(a) THEN Num(MathRound(a)) ELSE a

Min(i, j) == IF i < j THEN i ELSE j

Max(i, j) == IF i > j THEN i ELSE j

clampScoreNoFloor(score) == Min(100, MathRound(score))

clampScoreNoCeiling(score) == Max(0, MathRound(score))

clampScore(score) == Max(0, Min(100, MathRound(score)))

(***************************************************************************)
(* Strings.                                                                *)
(***************************************************************************)
Chars(s) == [i \in 1..Len(s) |-> SubSeq(s, i, i)]

\* The characters the model's texts use, in code-unit order.
CodeOrder == Chars(" !,.?INabcdefghijklmnopqrstuvwxyz")

CharCode(c) == CHOOSE i \in 1..Len(CodeOrder) : CodeOrder[i] = c

IsSpace(c) == c = " "

\* The capital letters of the model's texts are A, G, I and N.
toLowerCase(s) ==
  [i \in 1..Len(s) |->
     IF s[i] = "I" THEN "i" ELSE IF s[i] = "N" THEN "n"
     ELSE IF s[i] = "A" THEN "a" ELSE IF s[i] = "G" THEN "g" ELSE s[i]]

RECURSIVE trimStart(_)
trimStart(s) ==
  IF s # <<>> /\ IsSpace(Head(s)) THEN trimStart(Tail(s)) ELSE s

RECURSIVE trimEnd(_)
trimEnd(s) ==
  IF s # <<>> /\ IsSpace(s[Len(s)]) THEN trimEnd(SubSeq(s, 1, Len(s) - 1)) ELSE s

trim(s) == trimEnd(trimStart(s))

\* String.prototype.split with a separator that is a maximal run of the
\* characters in seps: the pieces between the runs, empty pieces at either end
\* kept ("" gives one empty piece).
RECURSIVE SplitRuns(_, _, _, _)
SplitRuns(s, seps, cur, inRun) ==
  IF s = <<>> THEN <<cur>>
  ELSE IF Head(s) \in seps
       THEN IF inRun THEN SplitRuns(Tail(s), seps, cur, TRUE)
            ELSE <<cur>> \o SplitRuns(Tail(s), seps, <<>>, TRUE)
       ELSE SplitRuns(Tail(s), seps, Append(cur, Head(s)), FALSE)

\* s.split(/\s+/)
splitWhitespace(s) == SplitRuns(s, {" "}, <<>>, FALSE)

\* s.split(/[.!?]+/)
splitTerminators(s) == SplitRuns(s, {".", "!", "?"}, <<>>, FALSE)

\* String.prototype.includes
includes(word, part) ==
  \E i \in 1..(Len(word) - Len(part) + 1) :
    SubSeq(word, i, i + Len(part) - 1) = part

\* arr.filter(keep).length
CountWhere(arr, keep(_)) == Cardinality({i \in 1..Len(arr) : keep(arr[i])})

RECURSIVE Sum(_)
Sum(seq) == IF seq = <<>> THEN 0 ELSE Head(seq) + Sum(Tail(seq))

\* Array.prototype.join(",")
RECURSIVE joinComma(_)
joinComma(arr) ==
  IF arr = <<>> THEN <<>>
  ELSE IF Len(arr) = 1 THEN arr[1]
       ELSE arr[1] \o <<",">> \o joinComma(Tail(arr))

\* The relational > on two strings: code-unit order, a proper prefix is smaller.
RECURSIVE StringGreater(_, _)
StringGreater(a, b) ==
  IF a = <<>> THEN FALSE
  ELSE IF b = <<>> THEN TRUE
  ELSE IF Head(a) # Head(b) THEN CharCode(Head(a)) > CharCode(Head(b))
  ELSE StringGreater(Tail(a), Tail(b))

\* a > b on two arrays of strings: both are converted with join(",").
ArrayGreater(a, b) == StringGreater(joinComma(a), joinComma(b))

(***************************************************************************)
(* The sentiment package (new sentiment()).analyze, an external module:    *)
(* its tokenizer, an excerpt of its AFINN word list and the English        *)
(* negation rule.  The tokens are scored from the last to the first.       *)
(***************************************************************************)
sentimentTokenize(s) ==
  LET lowered == toLowerCase(s)
      spaced == [i \in 1..Len(lowered) |->
                   IF lowered[i] \in {".", ",", "!", "?"} THEN " " ELSE lowered[i]]
  IN  SplitRuns(trim(spaced), {" "}, <<>>, FALSE)

afinn(word) ==
  CASE word = Chars("happy") -> 3
    [] word = Chars("good") -> 3
    [] word = Chars("hate") -> -3
    [] word = Chars("bad") -> -3
    [] word = Chars("nervous") -> -2
    [] word = Chars("no") -> -1
    [] OTHER -> 0

negators == {Chars("not"), Chars("cant"), Chars("dont"), Chars("isnt")}

tokenScore(tokens, i) ==
  IF i > 1 /\ tokens[i - 1] \in negators THEN -afinn(tokens[i]) ELSE afinn(tokens[i])

RECURSIVE ScoredFrom(_, _, _)
ScoredFrom(tokens, i, wanted) ==
  IF i = 0 THEN <<>>
  ELSE IF Sign(tokenScore(tokens, i)) = wanted
       THEN <<tokens[i]>> \o ScoredFrom(tokens, i - 1, wanted)
       ELSE ScoredFrom(tokens, i - 1, wanted)

sentimentAnalyze(s) ==
  LET tokens == sentimentTokenize(s)
  IN  [score |-> Sum([i \in 1..Len(tokens) |-> tokenScore(tokens, i)]),
       positive |-> ScoredFrom(tokens, Len(tokens), 1),
       negative |-> ScoredFrom(tokens, Len(tokens), -1)]

(***************************************************************************)
(* JavaScript values of the request bodies.  A media field (audioData,     *)
(* videoData, imageData) is undefined, a string or an array-like value     *)
(* with a length; a text field is undefined or a string.                   *)
(***************************************************************************)
Undefined == [type |-> "undefined"]

Null == [type |-> "null"]

Str(s) == [type |-> "string", chars |-> s]

Arr(n) == [type |-> "array", length |-> n]

\* ToBoolean: undefined, null and "" are falsy; arrays and objects are truthy.
Truthy(v) ==
  CASE v.type = "undefined" -> FALSE
    [] v.type = "null" -> FALSE
    [] v.type = "string" -> v.chars # <<>>
    [] OTHER -> TRUE

\* a || b
Or(a, b) == IF Truthy(a) THEN a ELSE b

(***************************************************************************)
(* Feature extraction (simulated).                                         *)
(***************************************************************************)
Repeat(n, x) == [i \in 1..n |-> x]

extractAudioFeatures(audioData) ==
  IF ~Truthy(audioData) \/ audioData.type = "string"
  THEN [pitch |-> Num(150), volume |-> R(1, 2), tempo |-> Num(120),
        spectralCentroid |-> Num(1000), zeroCrossingRate |-> R(1, 10),
        mfcc |-> Repeat(13, R(1, 10)),
        spectralRolloff |-> Num(2000), spectralBandwidth |-> Num(500)]
  ELSE LET dataLength == IF audioData.length # 0 THEN audioData.length ELSE 1000
           complexity == RMin(R(dataLength, 10000), Num(1))
       IN  [pitch |-> RAdd(Num(120), RMul(complexity, Num(100))),
            volume |-> RAdd(R(3, 10), RMul(complexity, R(4, 10))),
            tempo |-> RAdd(Num(80), RMul(complexity, Num(80))),
            spectralCentroid |-> RAdd(Num(800), RMul(complexity, Num(1200))),
            zeroCrossingRate |-> RAdd(R(5, 100), RMul(complexity, R(1, 10))),
            mfcc |-> Repeat(13, RMul(R(2, 10), complexity)),
            spectralRolloff |-> RAdd(Num(1500), RMul(complexity, Num(2000))),
            spectralBandwidth |-> RAdd(Num(300), RMul(complexity, Num(400)))]

extractVideoFeatures(videoData) ==
  IF ~Truthy(videoData) \/ videoData.type = "string"
  THEN [faceDetected |-> TRUE, eyeAspectRatio |-> R(25, 100),
        mouthAspectRatio |-> R(15, 100),
        headPose |-> [pitch |-> Num(0), yaw |-> Num(0), roll |-> Num(0)],
        microExpressions |-> R(1, 10), blinkRate |-> Num(20),
        smileIntensity |-> R(3, 10),
        gazeDirection |-> [x |-> R(1, 2), y |-> R(1, 2)]]
  ELSE LET dataLength == IF videoData.length # 0 THEN videoData.length ELSE 1000
           complexity == RMin(R(dataLength, 5000), Num(1))
       IN  [faceDetected |-> TRUE,
            eyeAspectRatio |-> RAdd(R(2, 10), RMul(complexity, R(1, 10))),
            mouthAspectRatio |-> RAdd(R(1, 10), RMul(complexity, R(1, 10))),
            headPose |-> [pitch |-> RMul(R(1, 10), complexity),
                          yaw |-> RMul(R(1, 10), complexity),
                          roll |-> RMul(R(1, 10), complexity)],
            microExpressions |-> RMul(complexity, R(3, 10)),
            blinkRate |-> RAdd(Num(15), RMul(complexity, Num(20))),
            smileIntensity |-> RMul(complexity, R(5, 10)),
            gazeDirection |-> [x |-> R(1, 2), y |-> R(1, 2)]]

(***************************************************************************)
(* Express responses.  A handler runs against a response object: the       *)
(* Express response of a route ("express"), or the stand-in analyzeAll     *)
(* passes, { json: ... }, which has no status method ("stub").  A handler  *)
(* run is summarised by what it sent and by how its promise settled.       *)
(***************************************************************************)
NoBody == [type |-> "none"]

Response(status, error, body) == [status |-> status, error |-> error, body |-> body]

\* res.json(result) as the last statement of the try block: the handler
\* returns nothing, whatever json returns.
sendJson(r, result) ==
  [settled |-> "fulfilled", value |-> Undefined,
   sent |-> IF r = "express" THEN <<Response(200, "", result)>> ELSE <<>>]

\* The error escapes the handler and nothing is sent.
sendErrorUnanswered(r, status, error) ==
  [settled |-> "rejected", value |-> Undefined, sent |-> <<>>]

\* res.status(code).json({ error }) inside the try block.  On a response
\* object without status the call throws a TypeError, the catch block's own
\* res.status(500) throws again, and the handler's promise rejects.
sendError(r, status, error) ==
  IF r = "express"
  THEN [settled |-> "fulfilled", value |-> Undefined,
        sent |-> <<Response(status, error, NoBody)>>]
  ELSE [settled |-> "rejected", value |-> Undefined, sent |-> <<>>]

(***************************************************************************)
(* Voice analysis.                                                         *)
(***************************************************************************)
RECURSIVE RSum(_)
RSum(seq) == IF seq = <<>> THEN Num(0) ELSE RAdd(Head(seq), RSum(Tail(seq)))

\* Math.round((a + b) / 2) on two integer scores
Average(a, b) == MathRound(R(a + b, 2))

stressWords ==
  {Chars("nervous"), Chars("anxious"), Chars("worried"), Chars("stressed"),
   Chars("tension"), Chars("pressure"), Chars("difficult"), Chars("hard"),
   Chars("struggle"), Chars("uncomfortable")}

hesitationWords ==
  {Chars("um"), Chars("uh"), Chars("er"), Chars("ah"), Chars("like"),
   Chars("you know"), Chars("actually"), Chars("basically"), Chars("well"),
   Chars("so")}

\* The word has to be a list entry: list.includes(word).
includesAnyWhole(word, list) == word \in list

\* list.some(part => word.includes(part))
includesAny(word, list) == \E part \in list : includes(word, part)

Band3(score, high, low, mid) ==
  IF score > 60 THEN high ELSE IF score < 40 THEN low ELSE mid

voiceResult(audioData, transcript) ==
  LET audioFeatures == extractAudioFeatures(audioData)
      hasAudio == Truthy(audioData)
      hasText == Truthy(transcript)
      normalizedPitch == RMin(RDiv(audioFeatures.pitch, Num(255)), Num(1))
      pitchScore == IF hasAudio THEN clampScore(RMul(normalizedPitch, Num(100))) ELSE 50
      volumeStability ==
        RSub(Num(1), RMul(RAbs(RSub(audioFeatures.volume, R(1, 2))), Num(2)))
      toneScore == IF hasAudio THEN clampScore(RMul(volumeStability, Num(100))) ELSE 50
      spectralVariation ==
        RDiv(RAbs(RSub(audioFeatures.spectralCentroid, Num(1000))), Num(1000))
      tremorScore ==
        IF hasAudio THEN clampScore(RSub(Num(100), RMul(spectralVariation, Num(100))))
        ELSE 50
      mfccVariance ==
        RDiv(RSum([i \in 1..Len(audioFeatures.mfcc) |->
                     RMul(audioFeatures.mfcc[i], audioFeatures.mfcc[i])]),
             Num(Len(audioFeatures.mfcc)))
      audioStress ==
        IF hasAudio THEN clampScore(RAdd(Num(30), RMul(mfccVariance, Num(70)))) ELSE 50
      pitchEmotion == RDiv(RSub(audioFeatures.pitch, Num(150)), Num(100))
      tempoEmotion == RDiv(RSub(audioFeatures.tempo, Num(120)), Num(80))
      audioEmotional ==
        IF hasAudio
        THEN clampScore(RAdd(Num(50), RMul(RAdd(pitchEmotion, tempoEmotion), Num(25))))
        ELSE 50
      audioHesitation ==
        IF hasAudio THEN clampScore(RMul(audioFeatures.zeroCrossingRate, Num(100)))
        ELSE 50
      audioConfidence ==
        IF hasAudio THEN clampScore(RAdd(Num(70), RMul(audioFeatures.volume, Num(30))))
        ELSE 80
      text == IF hasText THEN transcript.chars ELSE <<>>
      sentimentResult == sentimentAnalyze(text)
      textEmotionalScore == clampScore(Num(50 + sentimentResult.score * 15))
      words == splitWhitespace(toLowerCase(text))
      stressCount == CountWhere(words, LAMBDA word : includesAny(word, stressWords))
      hesitationCount ==
        CountWhere(words, LAMBDA word : includesAny(word, hesitationWords))
      textStressScore == clampScore(Num(30 + stressCount * 10 + hesitationCount * 8))
      textHesitationScore == clampScore(Num(hesitationCount * 15))
      transcriptConfidence ==
        clampScore(RAdd(Num(60), RMin(R(Len(text), 20), Num(40))))
      emotionalScore ==
        IF hasText THEN Average(audioEmotional, textEmotionalScore) ELSE audioEmotional
      stressScore == IF hasText THEN Average(audioStress, textStressScore) ELSE audioStress
      hesitationScore ==
        IF hasText THEN Average(audioHesitation, textHesitationScore)
        ELSE audioHesitation
      confidence ==
        IF hasText THEN Average(audioConfidence, transcriptConfidence)
        ELSE audioConfidence
  IN  [type |-> "object",
       emotionalScore |-> emotionalScore,
       stressScore |-> stressScore,
       confidence |-> confidence,
       pitchScore |-> pitchScore,
       toneScore |-> toneScore,
       tremorScore |-> tremorScore,
       hesitationScore |-> hesitationScore,
       interpretation |->
         <<Band3(emotionalScore, "positive", "negative", "neutral"),
           Band3(stressScore, "high", "low", "moderate"),
           IF pitchScore > 70 THEN "good" ELSE "needs improvement">>,
       features |->
         [audioFeatures |-> audioFeatures,
          sentiment |-> emotionalScore,
          stressIndicators |-> stressScore,
          hesitationPatterns |-> Band3(hesitationScore, "High", "Low", "Moderate"),
          volumeStability |-> toneScore,
          pitchConsistency |-> pitchScore,
          tremorLevel |-> tremorScore]]

\* A truthy value that is no string has no toLowerCase: the TypeError is
\* caught and answered with res.status(500).json({ error }).
notAString(v) == Truthy(v) /\ v.type # "string"

analyzeVoice(body, r) ==
  IF ~Truthy(body.audioData) /\ ~Truthy(body.transcript)
  THEN sendError(r, 400, "Audio data or transcript required")
  ELSE IF notAString(body.transcript)
  THEN sendError(r, 500, "Voice analysis failed")
  ELSE sendJson(r, voiceResult(body.audioData, body.transcript))

(***************************************************************************)
(* Facial analysis.                                                        *)
(***************************************************************************)
\* The intensity compared with >=: videoFeatures.microExpressions >= 0.1.
facialConfidenceNonStrict(videoFeatures) ==
  clampScore(Num(70 + (IF videoFeatures.faceDetected THEN 20 ELSE 0)
                    + (IF ~RLt(videoFeatures.microExpressions, R(1, 10))
                       THEN 10 ELSE 0)))

\* confidence = clampScore(70 + (videoFeatures.faceDetected ? 20 : 0)
\*                            + (videoFeatures.microExpressions > 0.1 ? 10 : 0))
facialConfidence(videoFeatures) ==
  clampScore(Num(70 + (IF videoFeatures.faceDetected THEN 20 ELSE 0)
                    + (IF RLt(R(1, 10), videoFeatures.microExpressions)
                       THEN 10 ELSE 0)))

facialResult(videoData, imageData) ==
  LET videoFeatures == extractVideoFeatures(Or(videoData, imageData))
      microExpressions == clampScore(RMul(videoFeatures.microExpressions, Num(100)))
      eyeMovement ==
        clampScore(RMul(RSub(Num(1), videoFeatures.eyeAspectRatio), Num(100)))
      smileSuppression ==
        clampScore(RMul(RSub(Num(1), videoFeatures.smileIntensity), Num(100)))
      blinkingScore ==
        clampScore(RMul(RMin(RDiv(videoFeatures.blinkRate, Num(30)), Num(1)), Num(100)))
      headPoseStability ==
        RSub(Num(100),
             RMul(RAdd(RAdd(RAbs(videoFeatures.headPose.pitch),
                            RAbs(videoFeatures.headPose.yaw)),
                       RAbs(videoFeatures.headPose.roll)),
                  Num(2)))
      gazeStability ==
        RSub(Num(100),
             RMul(RAdd(RAbs(RSub(videoFeatures.gazeDirection.x, R(1, 2))),
                       RAbs(RSub(videoFeatures.gazeDirection.y, R(1, 2)))),
                  Num(200)))
      emotionalResponse ==
        clampScore(R(microExpressions + (100 - smileSuppression) + (100 - eyeMovement), 3))
      confidence == facialConfidence(videoFeatures)
  IN  [type |-> "object",
       microExpressions |-> microExpressions,
       eyeMovement |-> eyeMovement,
       smileSuppression |-> smileSuppression,
       blinkingScore |-> blinkingScore,
       headPoseStability |-> clampScore(headPoseStability),
       gazeStability |-> clampScore(gazeStability),
       emotionalResponse |-> emotionalResponse,
       confidence |-> confidence,
       interpretation |->
         <<IF microExpressions > 60 THEN "significant" ELSE "minimal",
           IF eyeMovement > 60 THEN "high" ELSE "normal",
           IF RLt(Num(70), headPoseStability) THEN "good" ELSE "needs improvement">>,
       features |->
         [videoFeatures |-> videoFeatures,
          microExpressionIntensity |-> microExpressions,
          eyeContactStability |-> 100 - eyeMovement,
          smileConsistency |-> 100 - smileSuppression,
          overallEmotionalState |-> emotionalResponse,
          headPoseAnalysis |-> videoFeatures.headPose,
          gazeAnalysis |-> videoFeatures.gazeDirection]]

analyzeFacial(body, r) ==
  IF ~Truthy(body.videoData) /\ ~Truthy(body.imageData)
  THEN sendError(r, 400, "Video or image data required")
  ELSE sendJson(r, facialResult(body.videoData, body.imageData))

(***************************************************************************)
(* Text analysis.                                                          *)
(***************************************************************************)
contradictionWords ==
  {Chars("but"), Chars("however"), Chars("although"), Chars("despite"),
   Chars("nevertheless"), Chars("yet"), Chars("on the other hand"),
   Chars("contrary")}

deceptionWords ==
  {Chars("maybe"), Chars("perhaps"), Chars("possibly"), Chars("might"),
   Chars("could be"), Chars("not sure"), Chars("i think"), Chars("probably")}

confidenceWords ==
  {Chars("definitely"), Chars("certainly"), Chars("absolutely"), Chars("surely"),
   Chars("without doubt"), Chars("clearly")}

\* text.split(/[.!?]+/).filter(s => s.trim().length > 0).length
sentenceCount(text) ==
  CountWhere(splitTerminators(text), LAMBDA s : Len(trim(s)) > 0)

textResult(text) ==
  LET sentimentResult == sentimentAnalyze(text)
      sentimentScore == clampScore(Num(50 + sentimentResult.score * 20))
      words == splitWhitespace(toLowerCase(text))
      sentences == sentenceCount(text)
      avgWordsPerSentence == R(Len(words), sentences)
      complexityScore == clampScore(RMin(RMul(avgWordsPerSentence, Num(8)), Num(100)))
      uniqueWords == {words[i] : i \in 1..Len(words)}
      vocabularyDiversity == RMul(R(Cardinality(uniqueWords), Len(words)), Num(100))
      consistencyScore == clampScore(vocabularyDiversity)
      contradictionCount == CountWhere(words, LAMBDA word : word \in contradictionWords)
      contradictionScore == clampScore(Num(100 - contradictionCount * 15))
      deceptionCount == CountWhere(words, LAMBDA word : word \in deceptionWords)
      deceptionScore == clampScore(Num(100 - deceptionCount * 10))
      confidenceCount == CountWhere(words, LAMBDA word : word \in confidenceWords)
      confidenceScore == clampScore(Num(60 + confidenceCount * 8))
      confidence ==
        clampScore(RAdd(RAdd(Num(70), RMin(R(Len(text), 100), Num(30))),
                        Num(IF ArrayGreater(sentimentResult.positive,
                                            sentimentResult.negative)
                            THEN 10 ELSE 0)))
  IN  [type |-> "object",
       sentimentScore |-> sentimentScore,
       consistencyScore |-> consistencyScore,
       complexityScore |-> complexityScore,
       contradictionScore |-> contradictionScore,
       deceptionScore |-> deceptionScore,
       confidenceScore |-> confidenceScore,
       confidence |-> confidence,
       interpretation |->
         <<Band3(sentimentScore, "positive", "negative", "neutral"),
           IF consistencyScore > 70 THEN "high" ELSE "moderate",
           IF deceptionScore > 70 THEN "low" ELSE "moderate">>,
       features |->
         [sentiment |-> sentimentResult,
          wordCount |-> Len(words),
          sentenceCount |-> sentences,
          averageWordsPerSentence |->
            RDiv(MathRoundNum(RMul(avgWordsPerSentence, Num(10))), Num(10)),
          vocabularyDiversity |-> MathRound(vocabularyDiversity),
          contradictionIndicators |-> contradictionCount,
          deceptionIndicators |-> deceptionCount,
          confidenceIndicators |-> confidenceCount,
          textComplexity |-> complexityScore]]

\* !text || text.trim().length === 0
textMissing(text) == ~Truthy(text) \/ Len(trim(text.chars)) = 0

analyzeText(body, r) ==
  IF textMissing(body.text)
  THEN sendError(r, 400, "Text content required")
  ELSE sendJson(r, textResult(body.text.chars))

(***************************************************************************)
(* Truth score computation.                                                *)
(***************************************************************************)
voiceWeights == <<R(15, 100), R(12, 100), R(8, 100), R(10, 100), R(10, 100),
                  R(8, 100), R(7, 100)>>

facialWeights == <<R(12, 100), R(10, 100), R(8, 100), R(6, 100), R(5, 100),
                   R(5, 100)>>

\* The last two text weights exchanged.
textWeightsSwapped == <<R(8, 100), R(6, 100), R(5, 100), R(3, 100), R(5, 100)>>

textWeights == <<R(8, 100), R(6, 100), R(5, 100), R(5, 100), R(3, 100)>>

truthWords ==
  {Chars("honestly"), Chars("truthfully"), Chars("actually"), Chars("really"),
   Chars("genuinely"), Chars("sincerely")}

lieWords ==
  {Chars("maybe"), Chars("perhaps"), Chars("possibly"), Chars("might"),
   Chars("could be"), Chars("not sure")}

\* weights.map(w => w / totalWeight)
normalizeWeightsSkipped(weights) == weights

normalizeWeights(weights) ==
  LET totalWeight == RSum(weights)
  IN  [i \in 1..Len(weights) |-> RDiv(weights[i], totalWeight)]

\* The stress term counted against the score: (1 - features[2]) * weights[2].
dotProductStressInverted(features, weights) ==
  RSum([i \in 1..Min(Len(features), Len(weights)) |->
          IF i = 2 THEN RMul(RSub(Num(1), features[i]), weights[i])
          ELSE RMul(features[i], weights[i])])

\* for (i < Math.min(features.length, weights.length))
\*   truthfulness += features[i] * weights[i]
dotProduct(features, weights) ==
  RSum([i \in 1..Min(Len(features), Len(weights)) |->
          RMul(features[i], weights[i])])

\* The five interpretation bands, by the first word(s) of the message.
truthBand(truthfulness) ==
  IF truthfulness > 80 THEN "High truthfulness"
  ELSE IF truthfulness > 65 THEN "Moderate to high truthfulness"
  ELSE IF truthfulness > 45 THEN "Mixed signals"
  ELSE IF truthfulness > 25 THEN "Low truthfulness"
  ELSE "Very low truthfulness"

\* The hedge words counted for the speaker: (truthCount + lieCount) / words.
truthIndicatorUnsigned(words) ==
  LET truthCount == CountWhere(words, LAMBDA word : includesAny(word, truthWords))
      lieCount == CountWhere(words, LAMBDA word : includesAny(word, lieWords))
  IN  R(truthCount + lieCount, Max(Len(words), 1))

\* truthIndicator = (truthCount - lieCount) / Math.max(words.length, 1), the
\* counts being those of the words that include a truth word or a lie word.
truthIndicator(words) ==
  LET truthCount == CountWhere(words, LAMBDA word : includesAny(word, truthWords))
      lieCount == CountWhere(words, LAMBDA word : includesAny(word, lieWords))
  IN  R(truthCount - lieCount, Max(Len(words), 1))

\* The indicator left undivided by the word count: 15 for every word of
\* difference between the two counts.
lexicalAdjustmentPerWord(words) ==
  RMul(truthIndicator(words), Num(15 * Max(Len(words), 1)))

\* (truthIndicator * 15)
lexicalAdjustment(words) == RMul(truthIndicator(words), Num(15))

\* The analyses' confidences are left out: clampScore(baseConfidence).
finalConfidenceBaseOnly(baseConfidence, avgConfidence, confidenceCount) ==
  clampScore(Num(baseConfidence))

\* finalConfidence = confidenceCount > 0
\*   ? clampScore((baseConfidence + avgConfidence / confidenceCount) / 2)
\*   : clampScore(baseConfidence)
finalConfidence(baseConfidence, avgConfidence, confidenceCount) ==
  IF confidenceCount > 0
  THEN clampScore(RDiv(RAdd(Num(baseConfidence), R(avgConfidence, confidenceCount)),
                       Num(2)))
  ELSE clampScore(Num(baseConfidence))

truthResult(voiceAnalysis, facialAnalysis, textAnalysis, transcript) ==
  LET hasVoice == Truthy(voiceAnalysis)
      hasFacial == Truthy(facialAnalysis)
      hasText == Truthy(textAnalysis)
      features ==
        (IF hasVoice
         THEN <<R(voiceAnalysis.emotionalScore, 100), R(voiceAnalysis.stressScore, 100),
                R(voiceAnalysis.confidence, 100), R(voiceAnalysis.pitchScore, 100),
                R(voiceAnalysis.toneScore, 100), R(voiceAnalysis.tremorScore, 100),
                R(voiceAnalysis.hesitationScore, 100)>>
         ELSE <<>>)
        \o (IF hasFacial
            THEN <<R(facialAnalysis.microExpressions, 100),
                   R(facialAnalysis.eyeMovement, 100),
                   R(facialAnalysis.emotionalResponse, 100),
                   R(facialAnalysis.confidence, 100),
                   R(facialAnalysis.headPoseStability, 100),
                   R(facialAnalysis.gazeStability, 100)>>
            ELSE <<>>)
        \o (IF hasText
            THEN <<R(textAnalysis.sentimentScore, 100),
                   R(textAnalysis.consistencyScore, 100),
                   R(textAnalysis.contradictionScore, 100),
                   R(textAnalysis.deceptionScore, 100),
                   R(textAnalysis.confidence, 100)>>
            ELSE <<>>)
      rawWeights ==
        (IF hasVoice THEN voiceWeights ELSE <<>>)
        \o (IF hasFacial THEN facialWeights ELSE <<>>)
        \o (IF hasText THEN textWeights ELSE <<>>)
      weights == normalizeWeights(rawWeights)
      dot == dotProduct(features, weights)
      hasTranscript == Truthy(transcript)
      text == IF hasTranscript THEN transcript.chars ELSE <<>>
      lengthFactor == RMin(R(Len(text), 200), Num(1))
      blended == RAdd(RMul(dot, R(8, 10)), RMul(lengthFactor, R(2, 10)))
      words == splitWhitespace(toLowerCase(text))
      truthfulness ==
        IF hasTranscript
        THEN clampScore(RAdd(RMul(blended, Num(100)), lexicalAdjustment(words)))
        ELSE clampScore(RMul(dot, Num(100)))
      availableAnalyses ==
        Cardinality({i \in 1..3 : <<hasVoice, hasFacial, hasText>>[i]})
      baseConfidence == 50 + availableAnalyses * 15
      avgConfidence ==
        (IF hasVoice THEN voiceAnalysis.confidence ELSE 0)
        + (IF hasFacial THEN facialAnalysis.confidence ELSE 0)
        + (IF hasText THEN textAnalysis.confidence ELSE 0)
      confidenceCount == availableAnalyses
  IN  [type |-> "object",
       truthfulness |-> truthfulness,
       confidence |-> finalConfidence(baseConfidence, avgConfidence, confidenceCount),
       interpretation |-> truthBand(truthfulness),
       analysisBreakdown |->
         [voice |-> IF hasVoice
                    THEN [type |-> "object",
                          emotional |-> voiceAnalysis.emotionalScore,
                          stress |-> voiceAnalysis.stressScore,
                          pitch |-> voiceAnalysis.pitchScore,
                          tone |-> voiceAnalysis.toneScore]
                    ELSE Null,
          facial |-> IF hasFacial
                     THEN [type |-> "object",
                           microExpressions |-> facialAnalysis.microExpressions,
                           eyeMovement |-> facialAnalysis.eyeMovement,
                           emotionalResponse |-> facialAnalysis.emotionalResponse,
                           headPose |-> facialAnalysis.headPoseStability]
                     ELSE Null,
          text |-> IF hasText
                   THEN [type |-> "object",
                         sentiment |-> textAnalysis.sentimentScore,
                         consistency |-> textAnalysis.consistencyScore,
                         deception |-> textAnalysis.deceptionScore]
                   ELSE Null],
       features |->
         [availableAnalyses |-> availableAnalyses,
          featureVector |-> features,
          weights |-> weights,
          transcriptLength |-> Len(text),
          mlModelVersion |-> "1.0.0"]]

\* The weight vector the handler has built when it reaches the normalization.
rawTruthWeights(body) ==
  (IF Truthy(body.voiceAnalysis) THEN voiceWeights ELSE <<>>)
  \o (IF Truthy(body.facialAnalysis) THEN facialWeights ELSE <<>>)
  \o (IF Truthy(body.textAnalysis) THEN textWeights ELSE <<>>)

\* A handler run together with the weight vectors its normalization divided.
WithNormalized(outcome, vectors) ==
  [settled |-> outcome.settled, value |-> outcome.value, sent |-> outcome.sent,
   normalized |-> vectors]

computeTruthScoreNoGuard(body, r) ==
  WithNormalized(sendJson(r, truthResult(body.voiceAnalysis, body.facialAnalysis,
                                         body.textAnalysis, body.transcript)),
                 <<rawTruthWeights(body)>>)

computeTruthScore(body, r) ==
  IF ~Truthy(body.voiceAnalysis) /\ ~Truthy(body.facialAnalysis)
     /\ ~Truthy(body.textAnalysis)
  THEN WithNormalized(sendError(r, 400, "At least one analysis result required"), <<>>)
  ELSE WithNormalized(sendJson(r, truthResult(body.voiceAnalysis, body.facialAnalysis,
                                              body.textAnalysis, body.transcript)),
                      <<rawTruthWeights(body)>>)

(***************************************************************************)
(* The basic controller (part_003): the same five handlers with simpler    *)
(* formulas and a fixed weight vector.                                     *)
(***************************************************************************)
\* v.length of a string or an array-like value
lengthOf(v) == IF v.type = "string" THEN Len(v.chars) ELSE v.length

\* v?.length, with 0 standing for undefined (both are falsy)
optionalLength(v) == IF v.type \in {"undefined", "null"} THEN 0 ELSE lengthOf(v)

stressWords_p3 == stressWords \ {Chars("uncomfortable")}

hesitationWords_p3 == hesitationWords \ {Chars("well"), Chars("so")}

voiceResult_p3(audioData, transcript) ==
  LET hasAudio == Truthy(audioData)
      hasText == Truthy(transcript)
      text == IF hasText THEN transcript.chars ELSE <<>>
      sentimentResult == sentimentAnalyze(text)
      words == splitWhitespace(toLowerCase(text))
      stressCount == CountWhere(words, LAMBDA word : includesAny(word, stressWords_p3))
      hesitationCount ==
        CountWhere(words, LAMBDA word : includesAny(word, hesitationWords_p3))
      textEmotional ==
        IF hasText THEN clampScore(Num(50 + sentimentResult.score * 10)) ELSE 50
      textStress ==
        IF hasText THEN clampScore(Num(30 + stressCount * 15 + hesitationCount * 10))
        ELSE 50
      confidence ==
        IF hasText THEN clampScore(RAdd(Num(60), RMin(R(Len(text), 10), Num(40))))
        ELSE 80
      audioLength ==
        IF hasAudio /\ lengthOf(audioData) # 0 THEN lengthOf(audioData) ELSE 1000
      dataComplexity == RMin(R(audioLength, 1000), Num(1))
      volumeVariation == RAdd(Num(20), RMul(dataComplexity, Num(30)))
      emotionalScore ==
        IF hasAudio
        THEN clampScore(RAdd(Num(textEmotional),
                             RMul(RSub(volumeVariation, Num(35)), R(5, 10))))
        ELSE textEmotional
      stressScore ==
        IF hasAudio
        THEN clampScore(RAdd(Num(textStress),
                             RMul(RSub(volumeVariation, Num(35)), R(3, 10))))
        ELSE textStress
  IN  [type |-> "object",
       emotionalScore |-> emotionalScore,
       stressScore |-> stressScore,
       confidence |-> confidence,
       interpretation |->
         <<Band3(emotionalScore, "positive", "negative", "neutral"),
           Band3(stressScore, "high", "low", "moderate")>>,
       features |->
         [sentiment |-> emotionalScore,
          stressIndicators |-> stressScore,
          hesitationPatterns |-> Band3(stressScore, "High", "Low", "Moderate"),
          volumeStability |->
            IF hasAudio
            THEN clampScore(RSub(Num(70), RMul(Num(stressScore), R(3, 10))))
            ELSE 50]]

analyzeVoice_p3(body, r) ==
  IF ~Truthy(body.audioData) /\ ~Truthy(body.transcript)
  THEN sendError(r, 400, "Audio data or transcript required")
  ELSE sendJson(r, voiceResult_p3(body.audioData, body.transcript))

facialResult_p3(videoData, imageData) ==
  LET dataSize ==
        IF optionalLength(videoData) # 0 THEN optionalLength(videoData)
        ELSE IF optionalLength(imageData) # 0 THEN optionalLength(imageData)
        ELSE 1000
      baseScore == RMin(R(dataSize, 1000), Num(100))
      dataComplexity == RMin(R(dataSize, 2000), Num(1))
      microExpressions ==
        clampScore(RAdd(RMul(baseScore, R(3, 10)), RMul(dataComplexity, Num(20))))
      eyeMovement ==
        clampScore(RAdd(RMul(baseScore, R(4, 10)), RMul(dataComplexity, Num(15))))
      smileSuppression ==
        clampScore(RAdd(RMul(baseScore, R(2, 10)), RMul(dataComplexity, Num(25))))
      emotionalResponse ==
        clampScore(R(microExpressions + eyeMovement + smileSuppression, 3))
      confidence == clampScore(RAdd(Num(70), RMin(R(dataSize, 2000), Num(30))))
  IN  [type |-> "object",
       microExpressions |-> microExpressions,
       eyeMovement |-> eyeMovement,
       smileSuppression |-> smileSuppression,
       emotionalResponse |-> emotionalResponse,
       confidence |-> confidence,
       interpretation |->
         <<IF microExpressions > 60 THEN "significant" ELSE "minimal",
           IF eyeMovement > 60 THEN "high" ELSE "normal">>,
       features |->
         [microExpressionIntensity |-> microExpressions,
          eyeContactStability |-> 100 - eyeMovement,
          smileConsistency |-> 100 - smileSuppression,
          overallEmotionalState |-> emotionalResponse]]

analyzeFacial_p3(body, r) ==
  IF ~Truthy(body.videoData) /\ ~Truthy(body.imageData)
  THEN sendError(r, 400, "Video or image data required")
  ELSE sendJson(r, facialResult_p3(body.videoData, body.imageData))

contradictionWords_p3 ==
  {Chars("but"), Chars("however"), Chars("although"), Chars("despite"),
   Chars("nevertheless"), Chars("yet")}

textResult_p3(text) ==
  LET sentimentResult == sentimentAnalyze(text)
      sentimentScore == clampScore(Num(50 + sentimentResult.score * 15))
      words == splitWhitespace(toLowerCase(text))
      uniqueWords == {words[i] : i \in 1..Len(words)}
      consistencyScore ==
        clampScore(RMul(R(Cardinality(uniqueWords), Len(words)), Num(100)))
      sentences == sentenceCount(text)
      avgWordsPerSentence == R(Len(words), sentences)
      complexityScore == clampScore(RMin(RMul(avgWordsPerSentence, Num(5)), Num(100)))
      contradictionCount ==
        CountWhere(words, LAMBDA word : word \in contradictionWords_p3)
      contradictionScore == clampScore(Num(100 - contradictionCount * 20))
      confidence == clampScore(RAdd(Num(80), RMin(R(Len(text), 50), Num(20))))
  IN  [type |-> "object",
       sentimentScore |-> sentimentScore,
       consistencyScore |-> consistencyScore,
       complexityScore |-> complexityScore,
       contradictionScore |-> contradictionScore,
       confidence |-> confidence,
       interpretation |->
         <<Band3(sentimentScore, "positive", "negative", "neutral"),
           IF consistencyScore > 70 THEN "high" ELSE "moderate">>,
       features |->
         [sentiment |-> sentimentResult,
          wordCount |-> Len(words),
          sentenceCount |-> sentences,
          averageWordsPerSentence |->
            RDiv(MathRoundNum(RMul(avgWordsPerSentence, Num(10))), Num(10)),
          contradictionIndicators |-> contradictionCount,
          vocabularyDiversity |->
            MathRound(RMul(R(Cardinality(uniqueWords), Len(words)), Num(100)))]]

analyzeText_p3(body, r) ==
  IF textMissing(body.text)
  THEN sendError(r, 400, "Text content required")
  ELSE sendJson(r, textResult_p3(body.text.chars))

weights_p3 ==
  <<R(3, 10), R(2, 10), R(1, 10), R(15, 100), R(1, 10), R(5, 100), R(2, 10),
    R(15, 100), R(1, 10), R(5, 100), R(1, 10)>>

truthWords_p3 == truthWords \ {Chars("sincerely")}

lieWords_p3 == lieWords \ {Chars("not sure")}

truthBand_p3(truthfulness) ==
  IF truthfulness > 75 THEN "High truthfulness"
  ELSE IF truthfulness > 55 THEN "Moderate truthfulness"
  ELSE IF truthfulness > 35 THEN "Mixed signals"
  ELSE "Strong deception"

truthResult_p3(voiceAnalysis, facialAnalysis, textAnalysis, transcript) ==
  LET hasVoice == Truthy(voiceAnalysis)
      hasFacial == Truthy(facialAnalysis)
      hasText == Truthy(textAnalysis)
      features ==
        (IF hasVoice
         THEN <<R(voiceAnalysis.emotionalScore, 100), R(voiceAnalysis.stressScore, 100),
                R(voiceAnalysis.confidence, 100)>>
         ELSE <<R(1, 2), R(1, 2), R(1, 2)>>)
        \o (IF hasFacial
            THEN <<R(facialAnalysis.microExpressions, 100),
                   R(facialAnalysis.eyeMovement, 100),
                   R(facialAnalysis.emotionalResponse, 100),
                   R(facialAnalysis.confidence, 100)>>
            ELSE <<R(1, 2), R(1, 2), R(1, 2), R(1, 2)>>)
        \o (IF hasText
            THEN <<R(textAnalysis.sentimentScore, 100),
                   R(textAnalysis.consistencyScore, 100),
                   R(textAnalysis.contradictionScore, 100),
                   R(textAnalysis.confidence, 100)>>
            ELSE <<R(1, 2), R(1, 2), R(1, 2), R(1, 2)>>)
      dot ==
        RSum([i \in 1..Min(Len(features), Len(weights_p3)) |->
                RMul(features[i], weights_p3[i])])
      hasTranscript == Truthy(transcript)
      text == IF hasTranscript THEN transcript.chars ELSE <<>>
      lengthFactor == RMin(R(Len(text), 200), Num(1))
      blended == RAdd(RMul(dot, R(7, 10)), RMul(lengthFactor, R(3, 10)))
      words == splitWhitespace(toLowerCase(text))
      truthCount == CountWhere(words, LAMBDA word : includesAny(word, truthWords_p3))
      lieCount == CountWhere(words, LAMBDA word : includesAny(word, lieWords_p3))
      truthIndicator_p3 == R(truthCount - lieCount, Max(Len(words), 1))
      truthfulness ==
        IF hasTranscript
        THEN clampScore(RAdd(RMul(blended, Num(100)), RMul(truthIndicator_p3, Num(20))))
        ELSE clampScore(RMul(dot, Num(100)))
      availableAnalyses ==
        Cardinality({i \in 1..3 : <<hasVoice, hasFacial, hasText>>[i]})
  IN  [type |-> "object",
       truthfulness |-> truthfulness,
       confidence |-> clampScore(Num(60 + availableAnalyses * 15)),
       interpretation |-> truthBand_p3(truthfulness),
       analysisBreakdown |->
         [voice |-> IF hasVoice THEN Num(voiceAnalysis.emotionalScore) ELSE Null,
          facial |-> IF hasFacial THEN Num(facialAnalysis.emotionalResponse) ELSE Null,
          text |-> IF hasText THEN Num(textAnalysis.sentimentScore) ELSE Null],
       features |->
         [availableAnalyses |-> availableAnalyses,
          featureVector |-> features,
          transcriptLength |-> Len(text)]]

computeTruthScore_p3(body, r) ==
  IF ~Truthy(body.voiceAnalysis) /\ ~Truthy(body.facialAnalysis)
     /\ ~Truthy(body.textAnalysis)
  THEN sendError(r, 400, "At least one analysis result required")
  ELSE sendJson(r, truthResult_p3(body.voiceAnalysis, body.facialAnalysis,
                                  body.textAnalysis, body.transcript))

(***************************************************************************)
(* The analyzer class RealMLAnalyzer (part_002) and the helper-based       *)
(* controller built on it (part_004).  Audio and video arrive as base64    *)
(* strings.                                                                *)
(***************************************************************************)
Base64Alphabet ==
  Chars("ABCDEFGHIJKLMNOPQRSTUVWXYZabcdefghijklmnopqrstuvwxyz0123456789+/")

isBase64(c) == \E i \in 1..Len(Base64Alphabet) : Base64Alphabet[i] = c

sextet(c) == (CHOOSE i \in 1..Len(Base64Alphabet) : Base64Alphabet[i] = c) - 1

\* The 6-bit values of the characters before the padding.
RECURSIVE sextets(_)
sextets(s) ==
  IF s = <<>> \/ Head(s) = "=" THEN <<>>
  ELSE IF isBase64(Head(s)) THEN <<sextet(Head(s))>> \o sextets(Tail(s))
  ELSE sextets(Tail(s))

\* Four 6-bit values make three bytes; a last group of two or three values
\* makes one or two bytes.
RECURSIVE bytesOf(_)
bytesOf(x) ==
  IF Len(x) < 2 THEN <<>>
  ELSE LET first == x[1] * 4 + (x[2] \div 16)
       IN  IF Len(x) = 2 THEN <<first>>
           ELSE LET second == (x[2] % 16) * 16 + (x[3] \div 4)
                IN  IF Len(x) = 3 THEN <<first, second>>
                    ELSE <<first, second, (x[3] % 4) * 64 + x[4]>>
                           \o bytesOf(SubSeq(x, 5, Len(x)))

\* Buffer.from(data, 'base64')
bufferFromBase64(data) == bytesOf(sextets(data.chars))

\* Math.sqrt on a rational whose root is rational (the audio inputs of the
\* model are chosen so that the mean square of the bytes is such a number).
ISqrt(n) == CHOOSE k \in 0..n : k * k = n

RSqrt(q) == R(ISqrt(q[1]), ISqrt(q[2]))

calculateRMS(buffer) ==
  LET sum == Sum([i \in 1..Len(buffer) |-> buffer[i] * buffer[i]])
  IN  IF Len(buffer) > 0 THEN RDiv(RSqrt(R(sum, Len(buffer))), Num(255)) ELSE Num(0)

RECURSIVE MaxOf(_)
MaxOf(buffer) == IF buffer = <<>> THEN 0 ELSE Max(Head(buffer), MaxOf(Tail(buffer)))

detectPitch(buffer) ==
  IF Len(buffer) > 0 THEN R(MaxOf(buffer), 255) ELSE Num(0)

detectMotion(buffer) ==
  IF Len(buffer) < 2 THEN Num(0)
  ELSE LET diff == Sum([i \in 1..(Len(buffer) - 1) |-> Abs(buffer[i + 1] - buffer[i])])
       IN  R(diff, Len(buffer) * 255)

calculateStability(buffer) ==
  LET chunks == Len(buffer) \div 100
      deviation(i) ==
        LET chunk == SubSeq(buffer, i * 100 + 1, (i + 1) * 100)
            avg == R(Sum(chunk), 100)
        IN  RAbs(RSub(Num(chunk[1]), avg))
      variance == RSum([i \in 1..chunks |-> deviation(i - 1)])
  IN  IF chunks <= 0 THEN Num(1)
      ELSE RSub(Num(1), RDiv(RDiv(variance, Num(chunks)), Num(255)))

RECURSIVE splitFrom(_, _, _)
splitFrom(s, sep, cur) ==
  IF s = <<>> THEN <<cur>>
  ELSE IF Head(s) = sep THEN <<cur>> \o splitFrom(Tail(s), sep, <<>>)
  ELSE splitFrom(Tail(s), sep, Append(cur, Head(s)))

\* s.split(sep) for a one-character separator
split(s, sep) == splitFrom(s, sep, <<>>)

calculateSentiment(text) ==
  LET positive == {Chars("good"), Chars("great"), Chars("excellent"),
                   Chars("amazing"), Chars("love"), Chars("happy")}
      negative == {Chars("bad"), Chars("terrible"), Chars("awful"), Chars("hate"),
                   Chars("angry"), Chars("sad")}
      words == split(toLowerCase(text), " ")
      score == R(CountWhere(words, LAMBDA word : word \in positive)
                   - CountWhere(words, LAMBDA word : word \in negative), 5)
  IN  RMax(Num(-1), RMin(Num(1), score))

getDefaultVoice ==
  [type |-> "object", pitchScore |-> 50, toneScore |-> 50, emotionalScore |-> 50,
   stressScore |-> 50, confidence |-> 50,
   interpretation |-> "No audio data provided"]

getDefaultFacial ==
  [type |-> "object", microExpressions |-> "Low", eyeMovement |-> "Stable",
   headPoseStability |-> 80, gazeStability |-> 75, confidence |-> 50,
   interpretation |-> "No video data provided"]

getDefaultText ==
  [type |-> "object", sentimentScore |-> 50, consistencyScore |-> 70,
   complexityScore |-> 40, contradictionScore |-> 90, deceptionScore |-> 85,
   confidence |-> 60, interpretation |-> "No text data provided"]

RealMLAnalyzer_analyzeAudio(audioData) ==
  IF ~Truthy(audioData) THEN getDefaultVoice
  ELSE LET buffer == bufferFromBase64(audioData)
           duration == R(Len(buffer), 44100)
           rms == calculateRMS(buffer)
           pitch == detectPitch(buffer)
       IN  [type |-> "object",
            pitchScore |-> MathRound(RMul(pitch, Num(100))),
            toneScore |-> MathRound(RMul(rms, Num(100))),
            emotionalScore |-> MathRound(RMul(RAdd(rms, pitch), Num(50))),
            stressScore |-> MathRound(RMul(duration, Num(10))),
            confidence |-> MathRound(RAdd(Num(70), RMul(rms, Num(20)))),
            interpretation |-> "Real audio"]

RealMLAnalyzer_analyzeVideo(videoData) ==
  IF ~Truthy(videoData) THEN getDefaultFacial
  ELSE LET buffer == bufferFromBase64(videoData)
           motion == detectMotion(buffer)
           stability == calculateStability(buffer)
       IN  [type |-> "object",
            microExpressions |->
              IF RLt(R(1, 2), motion) THEN "High"
              ELSE IF RLt(R(2, 10), motion) THEN "Medium" ELSE "Low",
            eyeMovement |-> IF RLt(R(6, 10), motion) THEN "Frequent" ELSE "Stable",
            headPoseStability |-> MathRound(RMul(stability, Num(100))),
            gazeStability |-> MathRound(RMul(stability, Num(90))),
            confidence |-> MathRound(RAdd(Num(60), RMul(motion, Num(30)))),
            interpretation |-> "Real video"]

RealMLAnalyzer_analyzeText(text) ==
  IF ~Truthy(text) THEN getDefaultText
  ELSE LET words == split(text.chars, " ")
           sentimentValue == calculateSentiment(text.chars)
           complexity == R(Len(words), Len(split(text.chars, ".")))
       IN  [type |-> "object",
            sentimentScore |-> MathRound(RAdd(RMul(sentimentValue, Num(100)), Num(50))),
            consistencyScore |-> MathRound(RSub(Num(100), R(Len(words), 10))),
            complexityScore |-> MathRound(RMul(complexity, Num(10))),
            contradictionScore |-> 90,
            deceptionScore |-> 85,
            confidence |-> 75,
            interpretation |-> "Real text"]

\* What a helper call comes to: a returned value or a thrown Error.
Returned(value) == [thrown |-> FALSE, error |-> "", value |-> value]

Thrown(error) == [thrown |-> TRUE, error |-> error, value |-> Undefined]

\* The scores the helpers compute from generateDeterministicValue and from the
\* transcript are never used: each helper returns the analyzer's result.
analyzeVoiceHelper(audioData, transcript) ==
  IF ~Truthy(audioData) /\ ~Truthy(transcript)
  THEN Thrown("Audio data or transcript required")
  ELSE Returned(RealMLAnalyzer_analyzeAudio(audioData))

analyzeFacialHelper(videoData, imageData) ==
  IF ~Truthy(videoData) /\ ~Truthy(imageData)
  THEN Returned(RealMLAnalyzer_analyzeVideo(Null))
  ELSE Returned(RealMLAnalyzer_analyzeVideo(Or(videoData, imageData)))

analyzeTextHelper(text) ==
  IF textMissing(text) THEN Thrown("Text content required")
  ELSE Returned(RealMLAnalyzer_analyzeText(text))

truthBand_p4(truthfulness) ==
  IF truthfulness >= 80 THEN "High truthfulness"
  ELSE IF truthfulness >= 60 THEN "Moderate truthfulness"
  ELSE IF truthfulness >= 40 THEN "Mixed signals"
  ELSE "Low truthfulness"

\* divided holds the totalWeight the helper divided by, if it got that far.
computeTruthScoreHelper(voice, facial, text, transcript) ==
  IF ~Truthy(voice) /\ ~Truthy(facial) /\ ~Truthy(text)
  THEN [thrown |-> TRUE, error |-> "At least one analysis result required",
        value |-> Undefined, divided |-> <<>>]
  ELSE LET voiceWeight == R(3, 10)
           facialWeight == R(3, 10)
           textWeight == R(4, 10)
           voiceScore == R(voice.emotionalScore + voice.stressScore, 2)
           facialScore ==
             R(facial.headPoseStability + facial.gazeStability, 2)
           textScore ==
             R(text.sentimentScore + text.consistencyScore
                 + text.deceptionScore, 3)
           totalScore ==
             RSum((IF Truthy(voice) THEN <<RMul(voiceScore, voiceWeight)>>
                   ELSE <<>>)
                  \o (IF Truthy(facial) THEN <<RMul(facialScore, facialWeight)>>
                      ELSE <<>>)
                  \o (IF Truthy(text) THEN <<RMul(textScore, textWeight)>>
                      ELSE <<>>))
           totalWeight ==
             RSum((IF Truthy(voice) THEN <<voiceWeight>> ELSE <<>>)
                  \o (IF Truthy(facial) THEN <<facialWeight>> ELSE <<>>)
                  \o (IF Truthy(text) THEN <<textWeight>> ELSE <<>>))
           confidenceSum ==
             (IF Truthy(voice) THEN voice.confidence ELSE 0)
             + (IF Truthy(facial) THEN facial.confidence ELSE 0)
             + (IF Truthy(text) THEN text.confidence ELSE 0)
           confidenceCount ==
             Cardinality({k \in 1..3 :
                            Truthy(<<voice, facial, text>>[k])})
           truthfulness == clampScore(RDiv(totalScore, totalWeight))
       IN  [thrown |-> FALSE, error |-> "",
            value |-> [type |-> "object",
                       truthfulness |-> truthfulness,
                       confidence |-> clampScore(R(confidenceSum, confidenceCount)),
                       interpretation |-> truthBand_p4(truthfulness)],
            divided |-> <<totalWeight>>]

\* A route of part_004: the helper's value is sent, a thrown Error is
\* answered with 500 and the route's message.
routeAnswer(outcome, message) ==
  [settled |-> "fulfilled", value |-> Undefined,
   sent |-> IF outcome.thrown THEN <<Response(500, message, NoBody)>>
            ELSE <<Response(200, "", outcome.value)>>,
   helper |-> outcome]

analyzeVoice_p4(body) ==
  routeAnswer(analyzeVoiceHelper(body.audioData, body.transcript),
              "Voice analysis failed")

analyzeFacial_p4(body) ==
  routeAnswer(analyzeFacialHelper(body.videoData, body.imageData),
              "Facial analysis failed")

analyzeText_p4(body) ==
  routeAnswer(analyzeTextHelper(body.text), "Text analysis failed")

computeTruthScore_p4(body) ==
  routeAnswer(computeTruthScoreHelper(body.voice, body.facial, body.text,
                                      body.transcript),
              "Truth score computation failed")

(***************************************************************************)
(* Requests.                                                               *)
(***************************************************************************)
Words ==
  <<Chars("I"), Chars("happy"), Chars("hate"), Chars("um"), Chars("however"),
    Chars("maybe"), Chars("honestly"), Chars("nervous")>>

\* The texts of n words, joined by single spaces.
RECURSIVE Phrases(_)
Phrases(n) ==
  IF n = 1 THEN {Words[i] : i \in 1..Len(Words)}
  ELSE {p \o <<" ">> \o Words[i] : p \in Phrases(n - 1), i \in 1..Len(Words)}

SpecialTexts ==
  {Chars(""), Chars(" "), Chars("  "), Chars("I am telling the truth."),
   Chars("?!"), Chars(" um"), Chars("maybe,"), Chars("not happy"),
   Chars("I am happy"), Chars("definitely good. however, mighty bad!"),
   Chars("No transcript provided")}

Texts == SpecialTexts \cup UNION {Phrases(n) : n \in 1..MaxWords}

\* A JSON number sent where a string is expected.
NumberValue == [type |-> "number", value |-> 42]

TextValues == {Undefined} \cup {Str(t) : t \in Texts}

FewTextValues ==
  {Undefined} \cup {Str(t) : t \in SpecialTexts} \cup {Str(t) : t \in Phrases(1)}

MediaValues ==
  {Undefined, Str(Chars("")), Str(Chars("QUJD"))}
    \cup {Arr(k * 2500) : k \in 0..MaxLenSteps}

FewMediaValues == {Undefined, Str(Chars("QUJD")), Arr(0), Arr(5000)}

EmptyBody ==
  [audioData |-> Undefined, videoData |-> Undefined, imageData |-> Undefined,
   transcript |-> Undefined, text |-> Undefined, voiceAnalysis |-> Undefined,
   facialAnalysis |-> Undefined, textAnalysis |-> Undefined,
   voice |-> Undefined, facial |-> Undefined]

\* Score objects with every sub-score and the confidence set to v.
VoiceScoreAll(v) ==
  [voiceResult(Undefined, Str(Chars("I"))) EXCEPT
     !.emotionalScore = v, !.stressScore = v, !.confidence = v, !.pitchScore = v,
     !.toneScore = v, !.tremorScore = v, !.hesitationScore = v]

FacialScoreAll(v) ==
  [facialResult(Arr(0), Undefined) EXCEPT
     !.microExpressions = v, !.eyeMovement = v, !.smileSuppression = v,
     !.blinkingScore = v, !.headPoseStability = v, !.gazeStability = v,
     !.emotionalResponse = v, !.confidence = v]

TextScoreAll(v) ==
  [textResult(Chars("I")) EXCEPT
     !.sentimentScore = v, !.consistencyScore = v, !.complexityScore = v,
     !.contradictionScore = v, !.deceptionScore = v, !.confidenceScore = v,
     !.confidence = v]

VoiceAnalyses ==
  {Undefined, Null, VoiceScoreAll(0), VoiceScoreAll(100),
   voiceResult(Arr(5000), Str(Chars("I am happy")))}

FacialAnalyses ==
  {Undefined, Null, FacialScoreAll(0), FacialScoreAll(100),
   facialResult(Undefined, Str(Chars("QUJD")))}

TextAnalyses ==
  {Undefined, Null, TextScoreAll(0), TextScoreAll(100),
   [TextScoreAll(100) EXCEPT !.sentimentScore = 80, !.confidence = 60],
   [TextScoreAll(100) EXCEPT !.sentimentScore = 80, !.confidenceScore = 60],
   textResult(Chars("I am telling the truth."))}

FewVoiceAnalyses == {Undefined, VoiceScoreAll(100)}

FewFacialAnalyses == {Undefined, FacialScoreAll(0)}

FewTextAnalyses == {Undefined, TextScoreAll(100)}

FewTranscripts == {Undefined, Str(Chars("maybe"))}

TruthTranscripts ==
  {Undefined, Str(Chars("")), Str(Chars("maybe")), Str(Chars("honestly")),
   Str(Chars("I am telling the truth.")),
   Str(Chars("honestly really honestly really honestly really honestly really"))}

\* Base64 media for the helper-based controller: four bytes 255,0,0,0, the
\* two bytes 1,7 and six alternating bytes 255,0.
AudioStrings == {Undefined, Str(Chars("")), Str(Chars("/wAAAA==")), Str(Chars("AQc="))}

VideoStrings == {Undefined, Str(Chars("/wD/AP8A")), Str(Chars("AQc="))}

VoiceResults ==
  {Undefined, Null, getDefaultVoice, RealMLAnalyzer_analyzeAudio(Str(Chars("/wAAAA==")))}

FacialResults ==
  {Undefined, Null, getDefaultFacial, RealMLAnalyzer_analyzeVideo(Str(Chars("AQc=")))}

TextResults ==
  {Undefined, Null, getDefaultText,
   RealMLAnalyzer_analyzeText(Str(Chars("I am happy")))}

(***************************************************************************)
(* The session controller (Backend/controllers/sessions.js).  The Session  *)
(* collection is a sequence of documents in insertion order; a document's  *)
(* createdAt is its position, so a later document is a newer one.          *)
(***************************************************************************)
\* .limit(100)
ListLimit == 100

digit(n) == <<"0", "1", "2", "3", "4", "5", "6", "7", "8", "9">>[n + 1]

\* String(n) for 0 <= n < 1000
decimal(n) ==
  IF n < 10 THEN <<digit(n)>>
  ELSE IF n < 100 THEN <<digit(n \div 10), digit(n % 10)>>
  ELSE <<digit(n \div 100), digit((n \div 10) % 10), digit(n % 10)>>

\* crypto.randomUUID(): the n-th identifier drawn, different from every
\* other one and from every string a client sends.
randomUUID(n) == Str(Chars("uuid-") \o decimal(n))

\* The _id the collection gives its n-th document.
objectId(n) == Str(Chars("id-") \o decimal(n))

\* Session.create(doc): the document is appended with a new _id and createdAt.
Session_create(docs, doc) ==
  Append(docs, [type |-> "object", _id |-> objectId(Len(docs) + 1),
                userId |-> doc.userId, report |-> doc.report,
                createdAt |-> Len(docs) + 1])

\* Session.find({ userId })
Session_find(docs, userId) == SelectSeq(docs, LAMBDA doc : doc.userId = userId)

\* .sort({ createdAt: -1 }) of documents held in insertion order
sortNewestFirst(docs) == [i \in 1..Len(docs) |-> docs[Len(docs) + 1 - i]]

\* .limit(n)
limit(docs, n) == SubSeq(docs, 1, Min(n, Len(docs)))

\* Session.findOne({ $or: [{ _id }, { "report.shareId" }] }): the matching
\* documents, of which findOne takes the first.
Session_findOne(docs, idOrShare) ==
  SelectSeq(docs, LAMBDA doc : doc._id = idOrShare \/ doc.report.shareId = idOrShare)

\* Session.findById(id): the position of the document, 0 if there is none.
Session_findById(docs, id) ==
  IF \E i \in 1..Len(docs) : docs[i]._id = id
  THEN CHOOSE i \in 1..Len(docs) : docs[i]._id = id
  ELSE 0

\* res.status(500); next(error)
forwardError(message) == Response(500, message, NoBody)

\* req.body || {}
EmptyPayload == [type |-> "object", userId |-> Undefined, report |-> Undefined]

\* payload.report?.<field>
reportField(report, field) ==
  IF report.type = "object" THEN report[field] ELSE Undefined

\* shareId: payload.report?.shareId ?? crypto.randomUUID()
createSessionNullish(body, docs, persisted) ==
  LET payload == Or(body, EmptyPayload)
      supplied == reportField(payload.report, "shareId")
      report == [type |-> "object",
                 title |-> reportField(payload.report, "title"),
                 shareId |-> IF supplied.type \in {"undefined", "null"}
                             THEN randomUUID(Len(docs) + 1) ELSE supplied,
                 exportedPdfUrl |-> Undefined]
      created == Session_create(docs, [payload EXCEPT !.report = report])
  IN  IF persisted
      THEN [docs |-> created,
            sent |-> Response(201, "", [type |-> "object", success |-> TRUE,
                                        session |-> created[Len(created)]])]
      ELSE [docs |-> docs, sent |-> forwardError("create failed")]

\* createSession: the payload is stored with report spread and a shareId
\* added when the payload has none; persisted tells whether Session.create
\* resolved.  The result is the collection afterwards and the response.
createSession(body, docs, persisted) ==
  LET payload == Or(body, EmptyPayload)
      report == [type |-> "object",
                 title |-> reportField(payload.report, "title"),
                 shareId |-> Or(reportField(payload.report, "shareId"),
                                randomUUID(Len(docs) + 1)),
                 exportedPdfUrl |-> Undefined]
      created == Session_create(docs, [payload EXCEPT !.report = report])
  IN  IF persisted
      THEN [docs |-> created,
            sent |-> Response(201, "", [type |-> "object", success |-> TRUE,
                                        session |-> created[Len(created)]])]
      ELSE [docs |-> docs, sent |-> forwardError("create failed")]

\* isAdmin = adminKey === ADMIN_SECRET, without the two truthiness tests
listSessionsKeyOnly(adminKey, userId, secret, docs) ==
  IF adminKey = secret
  THEN Response(200, "", [type |-> "object", success |-> TRUE,
                          sessions |-> limit(sortNewestFirst(docs), ListLimit)])
  ELSE IF ~Truthy(userId)
  THEN Response(403, "Forbidden: userId required", NoBody)
  ELSE Response(200, "", [type |-> "object", success |-> TRUE,
                          sessions |-> limit(sortNewestFirst(Session_find(docs, userId)),
                                             ListLimit)])

\* listSessions: adminKey is the x-admin-key header, userId the query
\* parameter, secret process.env.ADMIN_SECRET.
listSessions(adminKey, userId, secret, docs) ==
  LET isAdmin == Truthy(adminKey) /\ Truthy(secret) /\ adminKey = secret
  IN  IF isAdmin
      THEN Response(200, "", [type |-> "object", success |-> TRUE,
                              sessions |-> limit(sortNewestFirst(docs), ListLimit)])
      ELSE IF ~Truthy(userId)
      THEN Response(403, "Forbidden: userId required", NoBody)
      ELSE Response(200, "", [type |-> "object", success |-> TRUE,
                              sessions |->
                                limit(sortNewestFirst(Session_find(docs, userId)),
                                      ListLimit)])

\* getSession by _id or report.shareId
getSession(idOrShare, docs) ==
  LET matching == Session_findOne(docs, idOrShare)
  IN  IF matching = <<>> THEN Response(404, "Session not found", NoBody)
      ELSE Response(200, "", [type |-> "object", success |-> TRUE,
                              session |-> matching[1]])

\* The first position of part in text, 0 if it does not occur.
indexOf(text, part) ==
  LET hits == {i \in 1..(Len(text) - Len(part) + 1) :
                 SubSeq(text, i, i + Len(part) - 1) = part}
  IN  IF hits = {} THEN 0 ELSE CHOOSE i \in hits : \A j \in hits : i <= j

\* String.prototype.replace(part, replacement) with a string pattern: the
\* first occurrence only.
replace(text, part, replacement) ==
  LET i == indexOf(text, part)
  IN  IF i = 0 THEN text
      ELSE SubSeq(text, 1, i - 1) \o replacement \o SubSeq(text, i + Len(part), Len(text))

\* The download URL is stored in place of uploadResult.secure_url.
saveExportedPdfUrlAttachment(docs, i, secure_url) ==
  [docs EXCEPT ![i].report.exportedPdfUrl =
     Str(replace(secure_url.chars, Chars("/upload/"), Chars("/upload/fl_attachment/")))]

\* session.report.exportedPdfUrl = uploadResult.secure_url; session.save()
saveExportedPdfUrl(docs, i, secure_url) ==
  [docs EXCEPT ![i].report.exportedPdfUrl = secure_url]

\* The 200 answer of exportSessionPdf.
exportAnswer(secure_url) ==
  Response(200, "",
           [type |-> "object", success |-> TRUE,
            pdfUrl |-> Str(replace(secure_url.chars, Chars("/upload/"),
                                   Chars("/upload/fl_attachment/"))),
            originalUrl |-> secure_url])

(***************************************************************************)
(* The admin login page (Frontend/src/components/AdminLogin.jsx).          *)
(***************************************************************************)
\* The only address the page lets through.
AllowedEmail == Chars("aanubothu@gmail.com")

\* email.trim().toLowerCase() === "aanubothu@gmail.com"
emailAllowed(email) == toLowerCase(trim(email.chars)) = AllowedEmail

\* The whitespace HTTP strips from either end of a header value.
IsHttpWhitespace(c) == c \in {" ", "\t", "\n", "\r"}

RECURSIVE stripHttpWhitespace(_)
stripHttpWhitespace(s) ==
  IF s = <<>> THEN s
  ELSE IF IsHttpWhitespace(Head(s)) THEN stripHttpWhitespace(Tail(s))
  ELSE IF IsHttpWhitespace(s[Len(s)]) THEN stripHttpWhitespace(SubSeq(s, 1, Len(s) - 1))
  ELSE s

\* headers: { "x-admin-key": password } as req.header("x-admin-key") reads
\* it: a header value travels without its leading and trailing whitespace.
headerValue(password) == Str(stripHttpWhitespace(password.chars))

\* Every answer but a 500 counts as ok.
okBelow500(response) == response.status < 500

\* res.ok: the status is in the range 200-299.
ok(response) == response.status \in 200..299

\* The three setItem calls of a login that went through.
storeLogin(email, password) ==
  [isAdmin |-> Str(Chars("true")), adminKey |-> password, adminEmail |-> email]

(***************************************************************************)
(* Requests to the session controller and the state it starts from.        *)
(***************************************************************************)
\* Sessions created in one behaviour.
MaxSessions == 2

\* Sessions exported in one behaviour.
MaxExports == 1

\* Earlier sessions of a collection that holds more than one page.
SeedCount == ListLimit + 1

UserIds == {Undefined, Str(Chars("")), Str(Chars("u1"))}

AdminKeys == {Undefined, Str(Chars("")), Str(Chars("s3cret")), Str(Chars("guess"))}

AdminSecrets == {Undefined, Str(Chars("")), Str(Chars("s3cret"))}

\* What is typed into the login page.
Emails ==
  {Str(AllowedEmail), Str(Chars(" AAnubothu@Gmail.com ")), Str(Chars("eve@gmail.com"))}

Passwords ==
  {Str(Chars("")), Str(Chars("s3cret")), Str(Chars(" s3cret")), Str(Chars("guess"))}

Report(title, shareId) == [type |-> "object", title |-> title, shareId |-> shareId]

Payload(userId, report) == [type |-> "object", userId |-> userId, report |-> report]

Payloads ==
  {Undefined,
   Payload(Str(Chars("u1")), Report(Str(Chars("A")), Str(Chars("share-a")))),
   Payload(Str(Chars("u2")), Report(Str(Chars("B")), Str(Chars(""))))}

\* uploadResult.secure_url of two uploads
SecureUrls == {Str(Chars("c/upload/r1")), Str(Chars("c/upload/r2"))}

\* The collection after SeedCount sessions of user u1 were created without
\* a report.
SeedStore ==
  [i \in 1..SeedCount |->
     [type |-> "object", _id |-> objectId(i), userId |-> Str(Chars("u1")),
      report |-> [type |-> "object", title |-> Undefined,
                  shareId |-> randomUUID(i), exportedPdfUrl |-> Undefined],
      createdAt |-> i]]

\* No export is under way.
NoExport == [found |-> 0, uploads |-> 0, secure_url |-> Undefined, before |-> <<>>]

NoEnv == [ADMIN_SECRET |-> Undefined]

\* sessionStorage with none of the three items: getItem gives null.
EmptyStorage == [isAdmin |-> Null, adminKey |-> Null, adminEmail |-> Null]

\* The login form before a submit.
NoForm == [email |-> Str(<<>>), password |-> Str(<<>>), error |-> Null]

(***************************************************************************)
(* The state machine: one request at a time, from its arrival to the       *)
(* response, res being what has been sent on the route's response object.  *)
(***************************************************************************)
NoRun == [settled |-> "none", value |-> Undefined, sent |-> <<>>]

NoTasks == [voice |-> NoRun, facial |-> NoRun, text |-> NoRun]

Init ==
  /\ pc = "idle"
  /\ req = [endpoint |-> "none", body |-> EmptyBody]
  /\ res = <<>>
  /\ run = NoRun
  /\ tasks = NoTasks
  /\ truthTask = NoRun
  /\ store = <<>>
  /\ env = NoEnv
  /\ export = NoExport
  /\ sessionStorage = EmptyStorage
  /\ form = NoForm

\* A route handler that runs to its response in one step.
Serve(endpoint, body, outcome) ==
  /\ req' = [endpoint |-> endpoint, body |-> body]
  /\ run' = outcome
  /\ res' = outcome.sent
  /\ pc' = "done"
  /\ UNCHANGED <<tasks, truthTask>>
  /\ UNCHANGED sessionVars

VoiceRoute ==
  /\ pc = "idle"
  /\ \E audioData \in MediaValues, transcript \in TextValues \cup {NumberValue} :
       LET body == [EmptyBody EXCEPT !.audioData = audioData, !.transcript = transcript]
       IN  Serve("voice", body, analyzeVoice(body, "express"))

FacialRoute ==
  /\ pc = "idle"
  /\ \E videoData \in MediaValues, imageData \in MediaValues :
       LET body == [EmptyBody EXCEPT !.videoData = videoData, !.imageData = imageData]
       IN  Serve("facial", body, analyzeFacial(body, "express"))

TextRoute ==
  /\ pc = "idle"
  /\ \E text \in TextValues :
       LET body == [EmptyBody EXCEPT !.text = text]
       IN  Serve("text", body, analyzeText(body, "express"))

TruthRoute ==
  /\ pc = "idle"
  /\ \E voiceAnalysis \in VoiceAnalyses, facialAnalysis \in FacialAnalyses,
        textAnalysis \in TextAnalyses, transcript \in TruthTranscripts :
       LET body == [EmptyBody EXCEPT !.voiceAnalysis = voiceAnalysis,
                                     !.facialAnalysis = facialAnalysis,
                                     !.textAnalysis = textAnalysis,
                                     !.transcript = transcript]
       IN  Serve("truth", body, computeTruthScore(body, "express"))

(***************************************************************************)
(* The combined endpoint.  analyzeAll calls the three handlers with a      *)
(* stand-in response object and waits for Promise.allSettled; the calls    *)
(* are independent, and the model lets them settle in any order.           *)
(***************************************************************************)
Pending == [settled |-> "pending", value |-> Undefined, sent |-> <<>>]

anySettled(t) ==
  \E k \in {"voice", "facial", "text"} : t[k].settled # "pending"

\* Promise.allSettled resolves once none of its promises is pending.
allSettled(t) ==
  \A k \in {"voice", "facial", "text"} : t[k].settled # "pending"

\* analyses[i].status === 'fulfilled' ? analyses[i].value : null
settledValue(task) == IF task.settled = "fulfilled" THEN task.value ELSE Null

AnalyzeAllStart ==
  /\ pc = "idle"
  /\ \E audioData \in FewMediaValues, videoData \in FewMediaValues,
        imageData \in {Undefined, Arr(2500)}, transcript \in FewTextValues :
       req' = [endpoint |-> "all",
               body |-> [EmptyBody EXCEPT !.audioData = audioData,
                                          !.videoData = videoData,
                                          !.imageData = imageData,
                                          !.transcript = transcript]]
  /\ tasks' = [voice |-> Pending, facial |-> Pending, text |-> Pending]
  /\ pc' = "scoring"
  /\ UNCHANGED <<res, run, truthTask>>
  /\ UNCHANGED sessionVars

SettleVoice ==
  /\ pc = "scoring"
  /\ tasks.voice.settled = "pending"
  /\ tasks' = [tasks EXCEPT !.voice =
                 analyzeVoice([EmptyBody EXCEPT !.audioData = req.body.audioData,
                                                !.transcript = req.body.transcript],
                              "stub")]
  /\ UNCHANGED <<pc, req, res, run, truthTask>>
  /\ UNCHANGED sessionVars

SettleFacial ==
  /\ pc = "scoring"
  /\ tasks.facial.settled = "pending"
  /\ tasks' = [tasks EXCEPT !.facial =
                 analyzeFacial([EmptyBody EXCEPT !.videoData = req.body.videoData,
                                                 !.imageData = req.body.imageData],
                               "stub")]
  /\ UNCHANGED <<pc, req, res, run, truthTask>>
  /\ UNCHANGED sessionVars

SettleText ==
  /\ pc = "scoring"
  /\ tasks.text.settled = "pending"
  /\ tasks' = [tasks EXCEPT !.text =
                 analyzeText([EmptyBody EXCEPT !.text = req.body.transcript], "stub")]
  /\ UNCHANGED <<pc, req, res, run, truthTask>>
  /\ UNCHANGED sessionVars

\* The continuation of the await: the results are collected and
\* computeTruthScore is called with them and the stand-in response object.
AnalyzeAllFuse ==
  /\ pc = "scoring"
  /\ allSettled(tasks)
  /\ truthTask' =
       computeTruthScore([EmptyBody EXCEPT
                            !.voiceAnalysis = settledValue(tasks.voice),
                            !.facialAnalysis = settledValue(tasks.facial),
                            !.textAnalysis = settledValue(tasks.text),
                            !.transcript = req.body.transcript],
                         "stub")
  /\ pc' = "fusing"
  /\ UNCHANGED <<req, res, run, tasks>>
  /\ UNCHANGED sessionVars

\* await truthResultPromise: a rejection lands in the catch block, which
\* answers 500 on the route's own response object.
AnalyzeAllRespond ==
  /\ pc = "fusing"
  /\ res' = IF truthTask.settled = "rejected"
            THEN <<Response(500, "Combined analysis failed", NoBody)>>
            ELSE <<Response(200, "",
                            [type |-> "object",
                             voice |-> settledValue(tasks.voice),
                             facial |-> settledValue(tasks.facial),
                             text |-> settledValue(tasks.text),
                             truth |-> truthTask.value])>>
  /\ pc' = "done"
  /\ UNCHANGED <<req, run, tasks, truthTask>>
  /\ UNCHANGED sessionVars

(***************************************************************************)
(* The combined endpoint of the basic controller (part_003): the same      *)
(* steps, with a stand-in { json: () => {} } and the collected results     *)
(* passed on under the keys voice, facial and text.                        *)
(***************************************************************************)
AnalyzeAllStart_p3 ==
  /\ pc = "idle"
  /\ \E audioData \in FewMediaValues, videoData \in FewMediaValues,
        imageData \in {Undefined, Arr(2500)}, transcript \in FewTextValues :
       req' = [endpoint |-> "all_p3",
               body |-> [EmptyBody EXCEPT !.audioData = audioData,
                                          !.videoData = videoData,
                                          !.imageData = imageData,
                                          !.transcript = transcript]]
  /\ tasks' = [voice |-> Pending, facial |-> Pending, text |-> Pending]
  /\ pc' = "scoring_p3"
  /\ UNCHANGED <<res, run, truthTask>>
  /\ UNCHANGED sessionVars

SettleVoice_p3 ==
  /\ pc = "scoring_p3"
  /\ tasks.voice.settled = "pending"
  /\ tasks' = [tasks EXCEPT !.voice =
                 analyzeVoice_p3([EmptyBody EXCEPT !.audioData = req.body.audioData,
                                                   !.transcript = req.body.transcript],
                                 "stub")]
  /\ UNCHANGED <<pc, req, res, run, truthTask>>
  /\ UNCHANGED sessionVars

SettleFacial_p3 ==
  /\ pc = "scoring_p3"
  /\ tasks.facial.settled = "pending"
  /\ tasks' = [tasks EXCEPT !.facial =
                 analyzeFacial_p3([EmptyBody EXCEPT !.videoData = req.body.videoData,
                                                    !.imageData = req.body.imageData],
                                  "stub")]
  /\ UNCHANGED <<pc, req, res, run, truthTask>>
  /\ UNCHANGED sessionVars

SettleText_p3 ==
  /\ pc = "scoring_p3"
  /\ tasks.text.settled = "pending"
  /\ tasks' = [tasks EXCEPT !.text =
                 analyzeText_p3([EmptyBody EXCEPT !.text = req.body.transcript], "stub")]
  /\ UNCHANGED <<pc, req, res, run, truthTask>>
  /\ UNCHANGED sessionVars

\* computeTruthScore({ body: { ...results, transcript } }, stand-in)
AnalyzeAllFuse_p3 ==
  /\ pc = "scoring_p3"
  /\ allSettled(tasks)
  /\ truthTask' =
       computeTruthScore_p3([EmptyBody EXCEPT !.voice = settledValue(tasks.voice),
                                              !.facial = settledValue(tasks.facial),
                                              !.text = settledValue(tasks.text),
                                              !.transcript = req.body.transcript],
                            "stub")
  /\ pc' = "fusing_p3"
  /\ UNCHANGED <<req, res, run, tasks>>
  /\ UNCHANGED sessionVars

AnalyzeAllRespond_p3 ==
  /\ pc = "fusing_p3"
  /\ res' = IF truthTask.settled = "rejected"
            THEN <<Response(500, "Combined analysis failed", NoBody)>>
            ELSE <<Response(200, "",
                            [type |-> "object",
                             voice |-> settledValue(tasks.voice),
                             facial |-> settledValue(tasks.facial),
                             text |-> settledValue(tasks.text),
                             truth |-> truthTask.value])>>
  /\ pc' = "done"
  /\ UNCHANGED <<req, run, tasks, truthTask>>
  /\ UNCHANGED sessionVars

\* POST compute-truth-score of the earlier controller (part_003).
TruthRoute_p3 ==
  /\ pc = "idle"
  /\ \E voiceAnalysis \in FewVoiceAnalyses, facialAnalysis \in FewFacialAnalyses,
        textAnalysis \in FewTextAnalyses, transcript \in FewTranscripts :
       LET body == [EmptyBody EXCEPT !.voiceAnalysis = voiceAnalysis,
                                     !.facialAnalysis = facialAnalysis,
                                     !.textAnalysis = textAnalysis,
                                     !.transcript = transcript]
       IN  Serve("truth_p3", body, computeTruthScore_p3(body, "express"))

(***************************************************************************)
(* The routes of the helper-based controller (part_004).                   *)
(***************************************************************************)
VoiceRoute_p4 ==
  /\ pc = "idle"
  /\ \E audioData \in AudioStrings, transcript \in FewTextValues :
       LET body == [EmptyBody EXCEPT !.audioData = audioData, !.transcript = transcript]
       IN  Serve("voice_p4", body, analyzeVoice_p4(body))

FacialRoute_p4 ==
  /\ pc = "idle"
  /\ \E videoData \in VideoStrings, imageData \in VideoStrings :
       LET body == [EmptyBody EXCEPT !.videoData = videoData, !.imageData = imageData]
       IN  Serve("facial_p4", body, analyzeFacial_p4(body))

TextRoute_p4 ==
  /\ pc = "idle"
  /\ \E text \in TextValues :
       LET body == [EmptyBody EXCEPT !.text = text]
       IN  Serve("text_p4", body, analyzeText_p4(body))

TruthRoute_p4 ==
  /\ pc = "idle"
  /\ \E voice \in VoiceResults, facial \in FacialResults, text \in TextResults :
       LET body == [EmptyBody EXCEPT !.voice = voice, !.facial = facial,
                                     !.text = text]
       IN  Serve("truth_p4", body, computeTruthScore_p4(body))

\* A helper call as analyzeAll sees it.
asTask(outcome) ==
  [settled |-> IF outcome.thrown THEN "rejected" ELSE "fulfilled",
   value |-> outcome.value, sent |-> <<>>]

\* analyzeAll of part_004 awaits the helpers one after the other inside one
\* try block: the first helper that throws ends the request with 500, and the
\* helpers after it are never called.
AnalyzeAllRoute_p4 ==
  /\ pc = "idle"
  /\ \E audioData \in AudioStrings, videoData \in VideoStrings,
        imageData \in {Undefined, Str(Chars("AQc="))}, transcript \in FewTextValues :
       LET voice == analyzeVoiceHelper(audioData, transcript)
           facial == analyzeFacialHelper(videoData, imageData)
           text == analyzeTextHelper(Or(transcript,
                                        Str(Chars("No transcript provided"))))
           truth == computeTruthScoreHelper(voice.value, facial.value, text.value,
                                            transcript)
           failed == voice.thrown \/ facial.thrown \/ text.thrown \/ truth.thrown
       IN  /\ req' = [endpoint |-> "all_p4",
                      body |-> [EmptyBody EXCEPT !.audioData = audioData,
                                                 !.videoData = videoData,
                                                 !.imageData = imageData,
                                                 !.transcript = transcript]]
           /\ tasks' =
                [voice |-> asTask(voice),
                 facial |-> IF voice.thrown THEN NoRun ELSE asTask(facial),
                 text |-> IF voice.thrown \/ facial.thrown THEN NoRun
                          ELSE asTask(text)]
           /\ truthTask' =
                IF voice.thrown \/ facial.thrown \/ text.thrown THEN NoRun
                ELSE asTask(truth)
           /\ res' =
                IF failed THEN <<Response(500, "Combined analysis failed", NoBody)>>
                ELSE <<Response(200, "",
                                [type |-> "object", voice |-> voice.value,
                                 facial |-> facial.value, text |-> text.value,
                                 truth |-> truth.value])>>
  /\ pc' = "done"
  /\ UNCHANGED run
  /\ UNCHANGED sessionVars

\* The response has gone out; the server takes the next request.
NextRequest ==
  /\ pc = "done"
  /\ pc' = "idle"
  /\ req' = [endpoint |-> "none", body |-> EmptyBody]
  /\ res' = <<>>
  /\ run' = NoRun
  /\ tasks' = NoTasks
  /\ truthTask' = NoRun
  /\ export' = NoExport
  /\ form' = NoForm
  /\ UNCHANGED <<store, env, sessionStorage>>

(***************************************************************************)
(* The session routes.  createSession, listSessions and getSession run to  *)
(* their response in one step; exportSessionPdf waits for the upload and   *)
(* for the save, and takes a step at each.                                 *)
(***************************************************************************)
SessionInit ==
  /\ pc = "idle"
  /\ req = [endpoint |-> "none", body |-> EmptyBody]
  /\ res = <<>>
  /\ run = NoRun
  /\ tasks = NoTasks
  /\ truthTask = NoRun
  /\ store \in {<<>>, SeedStore}
  /\ env \in [ADMIN_SECRET : AdminSecrets]
  /\ export = NoExport
  /\ sessionStorage = EmptyStorage
  /\ form = NoForm

\* The sessions created since the collection was seeded.
createdHere(docs) == IF Len(docs) >= SeedCount THEN Len(docs) - SeedCount ELSE Len(docs)

CreateSession ==
  /\ pc = "idle"
  /\ createdHere(store) < MaxSessions
  /\ \E body \in Payloads, persisted \in BOOLEAN :
       LET outcome == createSession(body, store, persisted)
       IN  /\ req' = [endpoint |-> "createSession", body |-> body]
           /\ store' = outcome.docs
           /\ res' = <<outcome.sent>>
  /\ pc' = "done"
  /\ UNCHANGED <<run, tasks, truthTask, env, export>>
  /\ UNCHANGED loginVars

ListSessions ==
  /\ pc = "idle"
  /\ \E adminKey \in AdminKeys, userId \in UserIds :
       /\ req' = [endpoint |-> "listSessions", body |-> EmptyBody,
                  header |-> adminKey, query |-> userId]
       /\ res' = <<listSessions(adminKey, userId, env.ADMIN_SECRET, store)>>
  /\ pc' = "done"
  /\ UNCHANGED <<run, tasks, truthTask, store, env, export>>
  /\ UNCHANGED loginVars

\* The identifiers a client asks for: ids and share ids of stored sessions
\* and one that names nothing.
KnownIds ==
  {store[i]._id : i \in {1, Len(store)} \cap DOMAIN store}
    \cup {objectId(Len(store) + 1)}

GetSession ==
  /\ pc = "idle"
  /\ \E idOrShare \in KnownIds \cup {Str(Chars("share-a")), randomUUID(1)} :
       /\ req' = [endpoint |-> "getSession", body |-> EmptyBody, params |-> idOrShare]
       /\ res' = <<getSession(idOrShare, store)>>
  /\ pc' = "done"
  /\ UNCHANGED <<run, tasks, truthTask, store, env, export>>
  /\ UNCHANGED loginVars

\* exportSessionPdf up to its second await: the session is looked up, the
\* PDF is rendered in memory and the upload is started.  rendered tells
\* whether the lookup and the rendering went through without throwing.
\* The sessions that carry an exported PDF.
exported(docs) == {i \in 1..Len(docs) : docs[i].report.exportedPdfUrl # Undefined}

ExportStart ==
  /\ pc = "idle"
  /\ Cardinality(exported(store)) < MaxExports
  /\ \E id \in {objectId(Len(store)), objectId(Len(store) + 1)}, rendered \in BOOLEAN :
       LET i == Session_findById(store, id)
       IN  /\ req' = [endpoint |-> "exportSessionPdf", body |-> EmptyBody, params |-> id]
           /\ IF i = 0
              THEN /\ res' = <<Response(404, "Session not found", NoBody)>>
                   /\ pc' = "done"
                   /\ export' = [NoExport EXCEPT !.before = store]
              ELSE IF ~rendered
              THEN /\ res' = <<forwardError("export failed")>>
                   /\ pc' = "done"
                   /\ export' = [NoExport EXCEPT !.found = i, !.before = store]
              ELSE /\ res' = <<>>
                   /\ pc' = "uploading"
                   /\ export' = [NoExport EXCEPT !.found = i, !.uploads = 1,
                                                 !.before = store]
  /\ UNCHANGED <<run, tasks, truthTask, store, env>>
  /\ UNCHANGED loginVars

\* upload_stream calls back with a result.
UploadResolves ==
  /\ pc = "uploading"
  /\ \E secure_url \in SecureUrls : export' = [export EXCEPT !.secure_url = secure_url]
  /\ pc' = "uploaded"
  /\ UNCHANGED <<req, res, run, tasks, truthTask, store, env>>
  /\ UNCHANGED loginVars

\* upload_stream calls back with an error: the promise rejects and the
\* catch block forwards it.
UploadRejects ==
  /\ pc = "uploading"
  /\ res' = <<forwardError("upload failed")>>
  /\ pc' = "done"
  /\ UNCHANGED <<req, run, tasks, truthTask, store, env, export>>
  /\ UNCHANGED loginVars

\* The URL is set on the session and session.save() resolves.
ExportSave ==
  /\ pc = "uploaded"
  /\ store' = saveExportedPdfUrl(store, export.found, export.secure_url)
  /\ pc' = "saved"
  /\ UNCHANGED <<req, res, run, tasks, truthTask, env, export>>
  /\ UNCHANGED loginVars

\* session.save() rejects.
ExportSaveRejects ==
  /\ pc = "uploaded"
  /\ res' = <<forwardError("save failed")>>
  /\ pc' = "done"
  /\ UNCHANGED <<req, run, tasks, truthTask, store, env, export>>
  /\ UNCHANGED loginVars

ExportRespond ==
  /\ pc = "saved"
  /\ res' = <<exportAnswer(export.secure_url)>>
  /\ pc' = "done"
  /\ UNCHANGED <<req, run, tasks, truthTask, store, env, export>>
  /\ UNCHANGED loginVars

(***************************************************************************)
(* The admin login.  submit checks the email, asks the backend for the     *)
(* session list with the password as x-admin-key and, once the answer is   *)
(* there, stores the login or shows an error.                              *)
(***************************************************************************)
\* submit up to its await: a refused email ends it, otherwise the request
\* GET /api/sessions is on its way.
Submit ==
  /\ pc = "idle"
  /\ \E email \in Emails, password \in Passwords :
       IF ~emailAllowed(email)
       THEN /\ form' = [email |-> email, password |-> password,
                        error |-> Str(Chars("Access denied"))]
            /\ pc' = "done"
            /\ req' = [endpoint |-> "adminLogin", body |-> EmptyBody,
                       header |-> Undefined, query |-> Undefined]
       ELSE /\ form' = [email |-> email, password |-> password, error |-> Null]
            /\ pc' = "fetching"
            /\ req' = [endpoint |-> "adminLogin", body |-> EmptyBody,
                       header |-> headerValue(password), query |-> Undefined]
  /\ UNCHANGED <<res, run, tasks, truthTask, store, env, export, sessionStorage>>

\* The backend runs listSessions on the request.
BackendAnswers ==
  /\ pc = "fetching"
  /\ res' = <<listSessions(req.header, req.query, env.ADMIN_SECRET, store)>>
  /\ pc' = "answered"
  /\ UNCHANGED <<req, run, tasks, truthTask, store, env, export>>
  /\ UNCHANGED loginVars

\* Session.find rejects: listSessions forwards the error with status 500.
BackendFails ==
  /\ pc = "fetching"
  /\ res' = <<forwardError("listSessions error")>>
  /\ pc' = "answered"
  /\ UNCHANGED <<req, run, tasks, truthTask, store, env, export>>
  /\ UNCHANGED loginVars

\* fetch rejects (the backend cannot be reached): the catch block.
FetchRejects ==
  /\ pc = "fetching"
  /\ form' = [form EXCEPT !.error = Str(Chars("Failed to fetch"))]
  /\ pc' = "done"
  /\ UNCHANGED <<req, res, run, tasks, truthTask, store, env, export, sessionStorage>>

\* submit after its await: an answer that is not ok throws into the catch
\* block, an ok answer stores the login.
SubmitSettles ==
  /\ pc = "answered"
  /\ IF ~ok(res[1])
     THEN /\ form' = [form EXCEPT !.error = Str(Chars("Invalid admin password"))]
          /\ UNCHANGED sessionStorage
     ELSE /\ sessionStorage' = storeLogin(form.email, form.password)
          /\ UNCHANGED form
  /\ pc' = "done"
  /\ UNCHANGED <<req, res, run, tasks, truthTask, store, env, export>>

Next ==
  \/ VoiceRoute
  \/ FacialRoute
  \/ TextRoute
  \/ TruthRoute
  \/ AnalyzeAllStart
  \/ SettleVoice
  \/ SettleFacial
  \/ SettleText
  \/ AnalyzeAllFuse
  \/ AnalyzeAllRespond
  \/ AnalyzeAllStart_p3
  \/ SettleVoice_p3
  \/ SettleFacial_p3
  \/ SettleText_p3
  \/ AnalyzeAllFuse_p3
  \/ AnalyzeAllRespond_p3
  \/ VoiceRoute_p4
  \/ FacialRoute_p4
  \/ TextRoute_p4
  \/ TruthRoute_p4
  \/ AnalyzeAllRoute_p4
  \/ NextRequest

Spec == Init /\ [][Next]_vars

\* The two compute-truth-score routes on their own.
FusionNext ==
  \/ TruthRoute
  \/ TruthRoute_p3
  \/ NextRequest

FusionSpec == Init /\ [][FusionNext]_vars

SessionNext ==
  \/ CreateSession
  \/ ListSessions
  \/ GetSession
  \/ ExportStart
  \/ UploadResolves
  \/ UploadRejects
  \/ ExportSave
  \/ ExportSaveRejects
  \/ ExportRespond
  \/ NextRequest

SessionSpec == SessionInit /\ [][SessionNext]_vars

LoginNext ==
  \/ Submit
  \/ BackendAnswers
  \/ BackendFails
  \/ FetchRejects
  \/ SubmitSettles
  \/ NextRequest

LoginSpec == SessionInit /\ [][LoginNext]_vars

(***************************************************************************)
(* Properties.                                                             *)
(***************************************************************************)
Answered(endpoint) ==
  pc = "done" /\ req.endpoint = endpoint /\ Len(res) = 1

Succeeded(endpoint) == Answered(endpoint) /\ res[1].status = 200

voiceScoreFields ==
  {"emotionalScore", "stressScore", "confidence", "pitchScore", "toneScore",
   "tremorScore", "hesitationScore"}

facialScoreFields ==
  {"microExpressions", "eyeMovement", "smileSuppression", "blinkingScore",
   "headPoseStability", "gazeStability", "emotionalResponse", "confidence"}

textScoreFields ==
  {"sentimentScore", "consistencyScore", "complexityScore", "contradictionScore",
   "deceptionScore", "confidenceScore", "confidence"}

\* C1: whenever the voice, facial or text handler answers a request it
\* accepted (audio of any length, any transcript, any non-blank text), every
\* sub-score and the confidence of the score object is an integer in 0..100.
C1_ScoresInRange ==
  /\ Succeeded("voice") => \A f \in voiceScoreFields : res[1].body[f] \in 0..100
  /\ Succeeded("facial") => \A f \in facialScoreFields : res[1].body[f] \in 0..100
  /\ Succeeded("text") => \A f \in textScoreFields : res[1].body[f] \in 0..100

\* A text whose raw sentiment score 50 + 20 * score is negative was scored.
C1_Witness ==
  /\ Succeeded("text")
  /\ 50 + 20 * sentimentAnalyze(req.body.text.chars).score < 0
  /\ res[1].body.sentimentScore = 0
  /\ res[1].body.features.sentenceCount = 1

\* C2: whenever computeTruthScore is given at least one analysis, with or
\* without a transcript, it answers 200 with a truthfulness and a confidence
\* that are integers in 0..100.
C2_TruthInRange ==
  (Answered("truth")
     /\ (Truthy(req.body.voiceAnalysis) \/ Truthy(req.body.facialAnalysis)
         \/ Truthy(req.body.textAnalysis)))
  => /\ res[1].status = 200
     /\ res[1].body.truthfulness \in 0..100
     /\ res[1].body.confidence \in 0..100

\* All three analyses at 100 and a transcript of truth words: the raw score
\* is above 100 before clamping.
C2_Witness ==
  /\ Succeeded("truth")
  /\ req.body.voiceAnalysis = VoiceScoreAll(100)
  /\ req.body.facialAnalysis = FacialScoreAll(100)
  /\ req.body.textAnalysis = TextScoreAll(100)
  /\ Truthy(req.body.transcript)
  /\ Len(req.body.transcript.chars) > 60
  /\ res[1].body.truthfulness = 100

\* C3: the weights computeTruthScore returns sum to 1, whichever non-empty
\* subset of the three analyses is present.
C3_WeightsSumToOne ==
  Succeeded("truth") => RSum(res[1].body.features.weights) = Num(1)

\* Voice and text present, facial absent.
C3_Witness ==
  /\ Succeeded("truth")
  /\ Truthy(req.body.voiceAnalysis)
  /\ ~Truthy(req.body.facialAnalysis)
  /\ Truthy(req.body.textAnalysis)
  /\ Len(res[1].body.features.weights) = 12

\* C4: computeTruthScore rejects with "At least one analysis result required"
\* exactly when the voice, facial and text analyses are all absent, and then
\* no weight vector is normalized; whenever the normalization runs, the vector
\* it divides is not empty.  computeTruthScoreHelper likewise throws exactly
\* when its three results are absent, and never divides by a zero weight.
C4_RejectsIffAllAbsent ==
  /\ Answered("truth") =>
       LET allAbsent == /\ ~Truthy(req.body.voiceAnalysis)
                        /\ ~Truthy(req.body.facialAnalysis)
                        /\ ~Truthy(req.body.textAnalysis)
       IN  /\ allAbsent <=> /\ res[1].status = 400
                            /\ res[1].error = "At least one analysis result required"
           /\ allAbsent <=> run.normalized = <<>>
           /\ \A i \in 1..Len(run.normalized) : run.normalized[i] # <<>>
  /\ Answered("truth_p4") =>
       LET allAbsent == /\ ~Truthy(req.body.voice)
                        /\ ~Truthy(req.body.facial)
                        /\ ~Truthy(req.body.text)
       IN  /\ allAbsent <=> /\ run.helper.thrown
                            /\ run.helper.error = "At least one analysis result required"
           /\ allAbsent <=> run.helper.divided = <<>>
           /\ \A i \in 1..Len(run.helper.divided) : RLt(Num(0), run.helper.divided[i])

\* computeTruthScore was called with a null voice analysis and nothing else,
\* and answered 400 without normalizing.
C4_Witness ==
  /\ Answered("truth")
  /\ req.body.voiceAnalysis = Null
  /\ req.body.facialAnalysis = Undefined
  /\ req.body.textAnalysis = Undefined
  /\ res[1].status = 400
  /\ run.normalized = <<>>

\* C5: analyzeVoice answers the missing-input error exactly when audio and
\* transcript are both absent, the facial scorer (analyzeFacial, and
\* analyzeFacialHelper of the helper-based controller) exactly when video and
\* image are both absent; with exactly one of the two inputs present the
\* answer is a score object with every sub-score, the confidence and the
\* interpretation populated.
C5_MissingInputIffBothAbsent ==
  /\ Answered("voice") =>
       /\ (~Truthy(req.body.audioData) /\ ~Truthy(req.body.transcript))
            <=> res[1].status = 400
       /\ (Truthy(req.body.audioData) # Truthy(req.body.transcript)) =>
            /\ res[1].status = 200
            /\ \A f \in voiceScoreFields : res[1].body[f] \in 0..100
            /\ res[1].body.interpretation # <<>>
  /\ Answered("facial") =>
       /\ (~Truthy(req.body.videoData) /\ ~Truthy(req.body.imageData))
            <=> res[1].status = 400
       /\ (Truthy(req.body.videoData) # Truthy(req.body.imageData)) =>
            /\ res[1].status = 200
            /\ \A f \in facialScoreFields : res[1].body[f] \in 0..100
            /\ res[1].body.interpretation # <<>>
  /\ Answered("facial_p4") =>
       /\ (~Truthy(req.body.videoData) /\ ~Truthy(req.body.imageData))
            <=> run.helper.thrown
       /\ (~Truthy(req.body.videoData) /\ ~Truthy(req.body.imageData))
            <=> res[1].status # 200

\* C6: the text scorer answers the missing-input error, and no score object,
\* exactly when the text is absent, empty or blank; in particular a combined
\* request of the helper-based controller whose transcript is absent, empty
\* or blank carries no text scores.
C6_NoScoresForMissingText ==
  /\ Answered("text") =>
       textMissing(req.body.text) <=> (res[1].status = 400 /\ res[1].body = NoBody)
  /\ (Answered("all_p4") /\ textMissing(req.body.transcript)) =>
       ~(res[1].status = 200 /\ Truthy(res[1].body.text))

\* What the three handlers of part_002 answer to the inputs of a combined
\* request when called as routes.
scorerAnswers(body) ==
  [voice |-> analyzeVoice([EmptyBody EXCEPT !.audioData = body.audioData,
                                            !.transcript = body.transcript],
                          "express").sent[1],
   facial |-> analyzeFacial([EmptyBody EXCEPT !.videoData = body.videoData,
                                              !.imageData = body.imageData],
                            "express").sent[1],
   text |-> analyzeText([EmptyBody EXCEPT !.text = body.transcript],
                        "express").sent[1]]

scorerAnswers_p3(body) ==
  [voice |-> analyzeVoice_p3([EmptyBody EXCEPT !.audioData = body.audioData,
                                               !.transcript = body.transcript],
                             "express").sent[1],
   facial |-> analyzeFacial_p3([EmptyBody EXCEPT !.videoData = body.videoData,
                                                 !.imageData = body.imageData],
                               "express").sent[1],
   text |-> analyzeText_p3([EmptyBody EXCEPT !.text = body.transcript],
                           "express").sent[1]]

\* The score object of an answer, or null for an error answer.
scoresOrNull(answer) == IF answer.status = 200 THEN answer.body ELSE Null

someFailSomeSucceed(answers) ==
  /\ \E k \in {"voice", "facial", "text"} : answers[k].status # 200
  /\ \E k \in {"voice", "facial", "text"} : answers[k].status = 200

\* C7: a combined request in which some scorers fail and at least one
\* succeeds is answered 200, with a truth result equal to the fusion of
\* exactly the successful scorers' results (the failed ones absent).
C7_PartialFailureStillFuses ==
  /\ (Answered("all") /\ someFailSomeSucceed(scorerAnswers(req.body))) =>
       LET answers == scorerAnswers(req.body)
       IN  /\ res[1].status = 200
           /\ res[1].body.truth =
                truthResult(scoresOrNull(answers.voice), scoresOrNull(answers.facial),
                            scoresOrNull(answers.text), req.body.transcript)
  /\ (Answered("all_p3") /\ someFailSomeSucceed(scorerAnswers_p3(req.body))) =>
       LET answers == scorerAnswers_p3(req.body)
       IN  /\ res[1].status = 200
           /\ res[1].body.truth =
                truthResult_p3(scoresOrNull(answers.voice),
                               scoresOrNull(answers.facial),
                               scoresOrNull(answers.text), req.body.transcript)
  /\ Answered("all_p4") =>
       LET voice == analyzeVoiceHelper(req.body.audioData, req.body.transcript)
           facial == analyzeFacialHelper(req.body.videoData, req.body.imageData)
           text == analyzeTextHelper(Or(req.body.transcript,
                                        Str(Chars("No transcript provided"))))
       IN  ((voice.thrown \/ facial.thrown \/ text.thrown)
            /\ ~(voice.thrown /\ facial.thrown /\ text.thrown)) =>
             /\ res[1].status = 200
             /\ res[1].body.truth =
                  computeTruthScoreHelper(voice.value, facial.value, text.value,
                                          req.body.transcript).value

\* C8: a combined request with audio, video or image, and a non-blank
\* transcript is answered with the three scorers' score objects and with the
\* fusion of those three objects and the transcript.
C8_CombinedCarriesScoresAndFusion ==
  /\ (/\ Answered("all")
      /\ Truthy(req.body.audioData)
      /\ Truthy(req.body.videoData) \/ Truthy(req.body.imageData)
      /\ ~textMissing(req.body.transcript)) =>
       LET voice == voiceResult(req.body.audioData, req.body.transcript)
           facial == facialResult(req.body.videoData, req.body.imageData)
           text == textResult(req.body.transcript.chars)
       IN  /\ res[1].status = 200
           /\ res[1].body.voice = voice
           /\ res[1].body.facial = facial
           /\ res[1].body.text = text
           /\ res[1].body.truth = truthResult(voice, facial, text, req.body.transcript)
  /\ (/\ Answered("all_p3")
      /\ Truthy(req.body.audioData)
      /\ Truthy(req.body.videoData) \/ Truthy(req.body.imageData)
      /\ ~textMissing(req.body.transcript)) =>
       LET voice == voiceResult_p3(req.body.audioData, req.body.transcript)
           facial == facialResult_p3(req.body.videoData, req.body.imageData)
           text == textResult_p3(req.body.transcript.chars)
       IN  /\ res[1].status = 200
           /\ res[1].body.voice = voice
           /\ res[1].body.facial = facial
           /\ res[1].body.text = text
           /\ res[1].body.truth =
                truthResult_p3(voice, facial, text, req.body.transcript)

\* C9: computeTruthScore is called for a combined request only once all three
\* handler calls have settled, in whatever order they settle.
C9_FusionAfterAllSettled ==
  (req.endpoint = "all" /\ truthTask.settled # "none") =>
    \A k \in {"voice", "facial", "text"} :
      tasks[k].settled \in {"fulfilled", "rejected"}

\* The fusion has been called once a fulfilled voice call and a rejected
\* facial call had settled.
C9_Witness ==
  /\ req.endpoint = "all"
  /\ pc = "fusing"
  /\ tasks.facial.settled = "rejected"
  /\ tasks.voice.settled = "fulfilled"


\* a <= b on numbers
RLe(a, b) == ~RLt(b, a)

\* C11: in every answer of computeTruthScore, raising any single entry of the
\* returned feature vector (to 1, or by one score point), the returned weights
\* and the other entries unchanged, never lowers the weighted dot product.
C11_DotProductMonotonic ==
  Succeeded("truth") =>
    LET features == res[1].body.features.featureVector
        weights == res[1].body.features.weights
    IN  \A i \in 1..Len(features) :
          \A raised \in {Num(1), RMin(Num(1), RAdd(features[i], R(1, 100)))} :
            RLe(dotProduct(features, weights),
                dotProduct([features EXCEPT ![i] = raised], weights))

\* An answer for three present analyses whose stress feature is below 1.
C11_Witness ==
  /\ Succeeded("truth")
  /\ Len(res[1].body.features.featureVector) = 18
  /\ RLt(res[1].body.features.featureVector[2], Num(1))
  /\ RLt(Num(0), res[1].body.features.weights[2])


\* The truth request carries no transcript and only a text analysis.
onlyTextNoTranscript ==
  /\ Succeeded("truth")
  /\ ~Truthy(req.body.voiceAnalysis)
  /\ ~Truthy(req.body.facialAnalysis)
  /\ Truthy(req.body.textAnalysis)
  /\ ~Truthy(req.body.transcript)

\* The text analysis of the request has sentiment 80 and consistency,
\* contradiction and deception 100.
scenarioTextScores ==
  /\ req.body.textAnalysis.sentimentScore = 80
  /\ req.body.textAnalysis.consistencyScore = 100
  /\ req.body.textAnalysis.contradictionScore = 100
  /\ req.body.textAnalysis.deceptionScore = 100

\* C12 as claimed: with only text present, no transcript, and text sub-scores
\* sentiment 80, consistency 100, contradiction 100, deception 100 and
\* confidence-words score 60, the truthfulness is exactly 90.
C12_ConfidenceWordsScenario ==
  (onlyTextNoTranscript /\ scenarioTextScores
     /\ req.body.textAnalysis.confidenceScore = 60)
  => res[1].body.truthfulness = 90

\* C12 as amended: with no transcript the truthfulness is
\* clamp(100 * sum(feature * weight) / sum(weight)) over the features of the
\* present analyses, where the fifth text feature is the text analysis's
\* overall confidence; with only text present, sentiment 80, consistency,
\* contradiction and deception 100 and overall confidence 60 it is exactly 90.
C12_NoTranscriptTruthfulness ==
  (Succeeded("truth") /\ ~Truthy(req.body.transcript)) =>
    LET v == req.body.voiceAnalysis
        f == req.body.facialAnalysis
        t == req.body.textAnalysis
        feature ==
          (IF Truthy(v)
           THEN <<v.emotionalScore, v.stressScore, v.confidence, v.pitchScore,
                  v.toneScore, v.tremorScore, v.hesitationScore>>
           ELSE <<>>)
          \o (IF Truthy(f)
              THEN <<f.microExpressions, f.eyeMovement, f.emotionalResponse,
                     f.confidence, f.headPoseStability, f.gazeStability>>
              ELSE <<>>)
          \o (IF Truthy(t)
              THEN <<t.sentimentScore, t.consistencyScore, t.contradictionScore,
                     t.deceptionScore, t.confidence>>
              ELSE <<>>)
        weight ==
          (IF Truthy(v) THEN <<15, 12, 8, 10, 10, 8, 7>> ELSE <<>>)
          \o (IF Truthy(f) THEN <<12, 10, 8, 6, 5, 5>> ELSE <<>>)
          \o (IF Truthy(t) THEN <<8, 6, 5, 5, 3>> ELSE <<>>)
        weighted == Sum([i \in 1..Len(feature) |-> feature[i] * weight[i]])
        total == Sum(weight)
    IN  /\ res[1].body.truthfulness = clampScore(R(weighted, total))
        /\ (onlyTextNoTranscript /\ scenarioTextScores
              /\ req.body.textAnalysis.confidence = 60)
           => res[1].body.truthfulness = 90

\* Only the text analysis of the scenario, with overall confidence 60, was
\* fused without a transcript.
C12_Witness ==
  /\ onlyTextNoTranscript
  /\ scenarioTextScores
  /\ req.body.textAnalysis.confidence = 60
  /\ res[1].body.truthfulness = 90


\* The band the five strict thresholds 80, 65, 45, 25 select.
strictBand(t) ==
  IF t > 80 THEN "high"
  ELSE IF t > 65 THEN "moderate to high"
  ELSE IF t > 45 THEN "mixed"
  ELSE IF t > 25 THEN "low"
  ELSE "very low"

\* The band an interpretation message names.
bandOf(interpretation) ==
  CASE interpretation = "High truthfulness" -> "high"
    [] interpretation \in {"Moderate to high truthfulness", "Moderate truthfulness"}
         -> "moderate to high"
    [] interpretation = "Mixed signals" -> "mixed"
    [] interpretation = "Low truthfulness" -> "low"
    [] interpretation = "Very low truthfulness" -> "very low"
    [] OTHER -> "none"

\* C13: every fused answer, of computeTruthScore and of the route built on
\* computeTruthScoreHelper, carries the interpretation of exactly the band
\* that the strict thresholds select for its truthfulness: above 80 high,
\* above 65 moderate to high, above 45 mixed, above 25 low, otherwise very
\* low, so that 80, 65, 45 and 25 fall in the lower band.
C13_StrictFiveBands ==
  (Succeeded("truth") \/ Succeeded("truth_p4")) =>
    bandOf(res[1].body.interpretation) = strictBand(res[1].body.truthfulness)


\* C14: analyzeVoice with audio absent and a non-empty transcript succeeds
\* with the base values of the default audio features: pitch 59, tone 100
\* and tremor 100 are returned as they are, and the bases stress 31,
\* emotional 50, hesitation 10 and confidence 85 are averaged with the
\* transcript's values; for "I am happy" (text emotional 95, stress 30,
\* hesitation 0, confidence 61) that is emotional 73, stress 31,
\* hesitation 5, confidence 73.
C14_DefaultFeaturesScored ==
  (Answered("voice") /\ ~Truthy(req.body.audioData) /\ Truthy(req.body.transcript))
  => /\ res[1].status = 200
     /\ res[1].body.pitchScore = 59
     /\ res[1].body.toneScore = 100
     /\ res[1].body.tremorScore = 100
     /\ req.body.transcript = Str(Chars("I am happy"))
        => /\ res[1].body.emotionalScore = 73
           /\ res[1].body.stressScore = 31
           /\ res[1].body.hesitationScore = 5
           /\ res[1].body.confidence = 73


\* C15: for every non-blank text the text answer, of analyzeText and of the
\* route built on analyzeTextHelper, has consistencyScore
\* clamp(100 * distinct lower-cased whitespace tokens / tokens),
\* contradictionScore clamp(100 - 15 * contradiction hits) and deceptionScore
\* clamp(100 - 10 * deception hits); for "I am telling the truth." the three
\* scores are 100 and the answer reports 5 words and 1 sentence.
C15_TextScoreFormulas ==
  ((Succeeded("text") \/ Succeeded("text_p4")) /\ req.body.text.type = "string") =>
    LET tokens == splitWhitespace(toLowerCase(req.body.text.chars))
        distinct == Cardinality({tokens[i] : i \in 1..Len(tokens)})
        contradictionHits ==
          Cardinality({i \in 1..Len(tokens) : tokens[i] \in contradictionWords})
        deceptionHits ==
          Cardinality({i \in 1..Len(tokens) : tokens[i] \in deceptionWords})
        body == res[1].body
    IN  /\ body.consistencyScore = Max(0, Min(100, MathRound(R(100 * distinct, Len(tokens)))))
        /\ body.contradictionScore = Max(0, Min(100, 100 - 15 * contradictionHits))
        /\ body.deceptionScore = Max(0, Min(100, 100 - 10 * deceptionHits))
        /\ req.body.text = Str(Chars("I am telling the truth."))
           => /\ body.consistencyScore = 100
              /\ body.contradictionScore = 100
              /\ body.deceptionScore = 100
              /\ "features" \in DOMAIN body
              /\ body.features.wordCount = 5
              /\ body.features.sentenceCount = 1


C18_ShareIdAlwaysStored ==
  /\ \A i \in DOMAIN store :
       /\ store[i].report.shareId.type = "string"
       /\ store[i].report.shareId.chars # <<>>
  /\ (Answered("createSession") /\ res[1].status = 201) =>
       LET session == store[Len(store)]
           report == IF req.body.type = "object" THEN req.body.report ELSE Undefined
           supplied == IF report.type = "object" THEN report.shareId ELSE Undefined
           title == IF report.type = "object" THEN report.title ELSE Undefined
       IN  /\ res[1].body.session = session
           /\ IF supplied.type = "string" /\ supplied.chars # <<>>
              THEN session.report.shareId = supplied
              ELSE /\ SubSeq(session.report.shareId.chars, 1, 5) = Chars("uuid-")
                   /\ \A i \in 1..(Len(store) - 1) :
                        store[i].report.shareId # session.report.shareId
           /\ session.report.title = title

\* Two sessions were created, the first with the shareId "share-a" of its
\* payload and the second, whose payload had an empty shareId, with a UUID.
C18_Witness ==
  /\ Answered("createSession")
  /\ res[1].status = 201
  /\ Len(store) = 2
  /\ store[1].report.shareId = Str(Chars("share-a"))
  /\ req.body.type = "object"
  /\ req.body.report.type = "object"
  /\ req.body.report.shareId = Str(Chars(""))
  /\ store[2].report.shareId = randomUUID(2)
  /\ store[2].report.title = Str(Chars("B"))

\* C19: no two stored sessions have the same report.shareId, and a
\* getSession request names at most one stored session by its shareId.
C19_ShareIdsUnique ==
  /\ \A i, j \in DOMAIN store :
       store[i].report.shareId = store[j].report.shareId => i = j
  /\ Answered("getSession") =>
       Cardinality({i \in DOMAIN store : store[i].report.shareId = req.params}) <= 1


\* The exportedPdfUrl of the i-th stored session, undefined if there is none.
exportedPdfUrlAt(docs, i) ==
  IF i \in DOMAIN docs THEN docs[i].report.exportedPdfUrl ELSE Undefined

\* This step gives some stored session another exportedPdfUrl.
writesExportedPdfUrl ==
  \E i \in DOMAIN store' : exportedPdfUrlAt(store', i) # exportedPdfUrlAt(store, i)

\* The export request is answered in this step with the given status.
exportAnswered(status) ==
  /\ pc # "done"
  /\ pc' = "done"
  /\ req'.endpoint = "exportSessionPdf"
  /\ res'[1].status = status

\* C20: in every step of exportSessionPdf, an exportedPdfUrl is written only
\* to the session being exported, after its upload has resolved and before
\* any response, and the value written is the upload's secure_url; the 200
\* response follows the write, and its originalUrl is the stored value; a
\* 404 response is given without an upload having been started; and when
\* the upload rejects the response is 500 and the collection is as it was
\* when the request arrived.
C20_ExportWritesAfterUpload ==
  [][/\ writesExportedPdfUrl =>
           (/\ pc = "uploaded"
            /\ export.uploads = 1
            /\ res = <<>>
            /\ res' = <<>>
            /\ store' = [store EXCEPT ![export.found].report.exportedPdfUrl =
                                        export.secure_url])
     /\ exportAnswered(200) =>
           (/\ pc = "saved"
            /\ store' = store
            /\ res'[1].body.originalUrl = store[export.found].report.exportedPdfUrl
            /\ store[export.found]._id = req.params)
     /\ exportAnswered(404) =>
           (/\ export'.uploads = 0
            /\ store' = store)
     /\ (pc = "uploading" /\ pc' = "done") =>
           (/\ res'[1].status = 500
            /\ store' = export.before)
    ]_vars

\* An export was answered 200 with the URL that the session now carries.
C20_Witness ==
  /\ Succeeded("exportSessionPdf")
  /\ export.uploads = 1
  /\ export.found \in DOMAIN store
  /\ store[export.found].report.exportedPdfUrl = res[1].body.originalUrl
  /\ res[1].body.originalUrl \in SecureUrls
  /\ res[1].body.pdfUrl # res[1].body.originalUrl


\* The confidences of the analyses present in the truth request.
presentConfidences ==
  (IF Truthy(req.body.voiceAnalysis) THEN <<req.body.voiceAnalysis.confidence>> ELSE <<>>)
  \o (IF Truthy(req.body.facialAnalysis)
      THEN <<req.body.facialAnalysis.confidence>> ELSE <<>>)
  \o (IF Truthy(req.body.textAnalysis) THEN <<req.body.textAnalysis.confidence>> ELSE <<>>)

\* C21: the confidence computeTruthScore answers with is
\* clamp((50 + 15 * k + mean) / 2), k being the number of present analyses
\* and mean the mean of their confidences; with those confidences in 0..100
\* it lies between 33 and 98.
C21_FusedConfidence ==
  Succeeded("truth") =>
    LET k == Len(presentConfidences)
        total == Sum(presentConfidences)
        \* (50 + 15k + total / k) / 2 = ((50 + 15k) * k + total) / (2k)
        expected == Max(0, Min(100, MathRound(R((50 + 15 * k) * k + total, 2 * k))))
    IN  /\ k \in 1..3
        /\ res[1].body.confidence = expected
        /\ (\A i \in 1..k : presentConfidences[i] \in 0..100)
             => res[1].body.confidence \in 33..98

\* One analysis of confidence 0 gives 33, three of confidence 100 give 98:
\* here the lower end.
C21_Witness ==
  /\ Succeeded("truth")
  /\ presentConfidences = <<0>>
  /\ res[1].body.confidence = 33


\* The tokens of the truth request's transcript, lower-cased.
transcriptTokens == splitWhitespace(toLowerCase(req.body.transcript.chars))

\* The number of tokens that contain one of the listed words.
tokenHits(list) ==
  LET tokens == transcriptTokens
  IN  Cardinality({i \in 1..Len(tokens) : \E part \in list : includes(tokens[i], part)})

\* C22: with a non-empty transcript of L characters and w tokens the
\* truthfulness answered is
\* clamp(100 * (0.8 * raw + 0.2 * min(L / 200, 1)) + 15 * (truth hits - lie hits) / max(w, 1)),
\* raw being the dot product of the answered feature vector and weights.
C22_TranscriptTruthfulness ==
  (Succeeded("truth") /\ Truthy(req.body.transcript)) =>
    LET L == Len(req.body.transcript.chars)
        w == Len(transcriptTokens)
        raw == dotProduct(res[1].body.features.featureVector,
                          res[1].body.features.weights)
        lengthPart == IF L >= 200 THEN Num(1) ELSE R(L, 200)
        score == RAdd(RMul(Num(100),
                           RAdd(RMul(R(8, 10), raw), RMul(R(2, 10), lengthPart))),
                      R(15 * (tokenHits(truthWords) - tokenHits(lieWords)),
                        Max(w, 1)))
    IN  res[1].body.truthfulness = Max(0, Min(100, MathRound(score)))

\* A transcript whose only token is a hedge word lowers a score that is
\* neither 0 nor 100.
C22_Witness ==
  /\ Succeeded("truth")
  /\ Truthy(req.body.transcript)
  /\ tokenHits(lieWords) = 1
  /\ tokenHits(truthWords) = 0
  /\ res[1].body.truthfulness \in 1..99


\* The weights of the analyses present in the request, normalized.
presentWeights ==
  normalizeWeights((IF Truthy(req.body.voiceAnalysis) THEN voiceWeights ELSE <<>>)
                   \o (IF Truthy(req.body.facialAnalysis) THEN facialWeights ELSE <<>>)
                   \o (IF Truthy(req.body.textAnalysis) THEN textWeights ELSE <<>>))

\* The length 7 [voice present] + 6 [facial present] + 5 [text present].
presentLength ==
  (IF Truthy(req.body.voiceAnalysis) THEN 7 ELSE 0)
  + (IF Truthy(req.body.facialAnalysis) THEN 6 ELSE 0)
  + (IF Truthy(req.body.textAnalysis) THEN 5 ELSE 0)

\* C23: the feature vector and the weights a fusion answers with have the same
\* length, 7 [voice] + 6 [facial] + 5 [text] over the present analyses, hold
\* entries for the present analyses only, each feature paired with its
\* analysis' weight, and every feature is in [0, 1].
C23_VectorsOfPresentAnalyses ==
  \A endpoint \in {"truth", "truth_p3"} :
    Succeeded(endpoint) =>
      LET features == res[1].body.features
      IN  /\ Len(features.featureVector) = presentLength
          /\ "weights" \in DOMAIN features
          /\ features.weights = presentWeights
          /\ \A i \in 1..Len(features.featureVector) :
               /\ RLe(Num(0), features.featureVector[i])
               /\ RLe(features.featureVector[i], Num(1))


\* C24: for an audio buffer of length n, n = 0 included, the audio features
\* answered have pitch = 120 + 100 * min(n / 10000, 1), so 120 for n = 0 and
\* 220 from n = 10000 on; the request is answered with 200, and the default
\* record (pitch 150) is answered for an absent input only.
C24_PitchFromBufferLength ==
  (Answered("voice") /\ req.body.audioData.type = "array") =>
    LET n == req.body.audioData.length
        audioFeatures == res[1].body.features.audioFeatures
    IN  /\ res[1].status = 200
        /\ audioFeatures.pitch =
             (IF n >= 10000 THEN Num(220) ELSE RAdd(Num(120), R(100 * n, 10000)))
        /\ audioFeatures # extractAudioFeatures(Undefined)


\* C25: for every non-blank text, one made only of sentence terminators
\* included, the answered sentenceCount is at least 1, and the answered
\* complexity score and averageWordsPerSentence are finite numbers.
C25_AtLeastOneSentence ==
  Succeeded("text") =>
    /\ res[1].body.features.sentenceCount >= 1
    /\ IsFinite(res[1].body.features.averageWordsPerSentence)
    /\ res[1].body.complexityScore \in 0..100


\* The lower-cased tokens of a text.
tokensOf(text) == splitWhitespace(toLowerCase(text))

\* The number of tokens that contain a list entry as a substring.
substringHits(text, list) ==
  LET tokens == tokensOf(text)
  IN  Cardinality({i \in 1..Len(tokens) :
                     \E part \in list :
                       \E k \in 1..(Len(tokens[i]) - Len(part) + 1) :
                         SubSeq(tokens[i], k, k + Len(part) - 1) = part})

\* The number of tokens that are a list entry.
wholeHits(text, list) ==
  LET tokens == tokensOf(text)
  IN  Cardinality({i \in 1..Len(tokens) : tokens[i] \in list})

\* C26: the voice scorer counts a transcript token as a stress or hesitation
\* hit when it contains a list word (once per token and list); the text
\* scorer counts a token as a contradiction, deception or confidence hit only
\* when the whole lower-cased token is a list word.
C26_SubstringAndWholeTokenHits ==
  /\ (Succeeded("voice") /\ Truthy(req.body.transcript)) =>
       LET audioOnly == voiceResult(req.body.audioData, Undefined)
           text == req.body.transcript.chars
           stressCount == substringHits(text, stressWords)
           hesitationCount == substringHits(text, hesitationWords)
           textStressScore == Max(0, Min(100, 30 + stressCount * 10 + hesitationCount * 8))
           textHesitationScore == Max(0, Min(100, hesitationCount * 15))
       IN  /\ res[1].body.stressScore =
                MathRound(R(audioOnly.stressScore + textStressScore, 2))
           /\ res[1].body.hesitationScore =
                MathRound(R(audioOnly.hesitationScore + textHesitationScore, 2))
  /\ Succeeded("text") =>
       LET text == req.body.text.chars
           features == res[1].body.features
       IN  /\ features.contradictionIndicators = wholeHits(text, contradictionWords)
           /\ features.deceptionIndicators = wholeHits(text, deceptionWords)
           /\ features.confidenceIndicators = wholeHits(text, confidenceWords)
           /\ res[1].body.contradictionScore =
                Max(0, 100 - 15 * wholeHits(text, contradictionWords))
           /\ res[1].body.deceptionScore =
                Max(0, 100 - 10 * wholeHits(text, deceptionWords))

\* A transcript whose token "however," holds the hesitation word "er" without
\* being a list word: one hesitation hit in the voice answer.
C26_Witness ==
  /\ Succeeded("voice")
  /\ Truthy(req.body.transcript)
  /\ substringHits(req.body.transcript.chars, hesitationWords) = 1
  /\ wholeHits(req.body.transcript.chars, hesitationWords) = 0
  /\ res[1].body.hesitationScore
       # voiceResult(req.body.audioData, Undefined).hesitationScore


\* C27: the facial confidence is 70 + 20 [faceDetected] + 10 [intensity > 0.1],
\* the comparison strict: 100 exactly when a face is detected and the
\* intensity exceeds 0.1, 90 when a face is detected and the intensity is at
\* most 0.1 (the default record has exactly 0.1), and never below 70.
C27_FacialConfidence ==
  Succeeded("facial") =>
    LET videoFeatures == res[1].body.features.videoFeatures
        detected == videoFeatures.faceDetected
        intense == /\ videoFeatures.microExpressions # R(1, 10)
                   /\ RLe(R(1, 10), videoFeatures.microExpressions)
        confidence == res[1].body.confidence
    IN  /\ confidence = 70 + (IF detected THEN 20 ELSE 0) + (IF intense THEN 10 ELSE 0)
        /\ confidence = 100 <=> (detected /\ intense)
        /\ (detected /\ ~intense) => confidence = 90
        /\ videoFeatures = extractVideoFeatures(Undefined) => confidence = 90
        /\ confidence >= 70

\* An image sent as a string: the default record, intensity exactly 0.1,
\* confidence 90.
C27_Witness ==
  /\ Succeeded("facial")
  /\ res[1].body.features.videoFeatures.microExpressions = R(1, 10)
  /\ res[1].body.confidence = 90


\* 100 * (0.8 * raw + 0.2 * lengthFactor) of the truth answer, before the
\* words of the transcript are looked at and before clamping.
blendedScore ==
  LET L == Len(req.body.transcript.chars)
      raw == dotProduct(res[1].body.features.featureVector,
                        res[1].body.features.weights)
  IN  RMul(Num(100), RAdd(RMul(R(8, 10), raw),
                          RMul(R(2, 10), IF L >= 200 THEN Num(1) ELSE R(L, 200))))

\* C28: with a transcript, the words move the truthfulness by at most 15
\* points either way from 100 * (0.8 * raw + 0.2 * lengthFactor): the answer
\* lies between the clamped roundings of that value minus 15 and plus 15.
C28_WordingMovesAtMost15 ==
  (Succeeded("truth") /\ Truthy(req.body.transcript)) =>
    /\ res[1].body.truthfulness
         >= Max(0, Min(100, MathRound(RSub(blendedScore, Num(15)))))
    /\ res[1].body.truthfulness
         <= Max(0, Min(100, MathRound(RAdd(blendedScore, Num(15)))))

\* A transcript of eight truth words and nothing else: the full 15 points are
\* added to a score that stays below 100.
C28_Witness ==
  /\ Succeeded("truth")
  /\ Truthy(req.body.transcript)
  /\ Len(transcriptTokens) = 8
  /\ tokenHits(truthWords) = 8
  /\ res[1].body.truthfulness = MathRound(RAdd(blendedScore, Num(15)))
  /\ res[1].body.truthfulness < 100


\* The five handlers of the controller as routes.
handlerEndpoints == {"voice", "facial", "text", "truth", "all"}

writesSessionStorage == sessionStorage' # sessionStorage

\* The login is written by the step that follows an ok answer to the request
\* sent for an allowed email, with the password as x-admin-key and no userId.
writtenAfterBothChecks ==
  /\ pc = "answered"
  /\ toLowerCase(trim(form.email.chars)) = AllowedEmail
  /\ req.endpoint = "adminLogin"
  /\ req.header = Str(stripHttpWhitespace(form.password.chars))
  /\ req.query = Undefined
  /\ res[1].status = 200
  /\ sessionStorage' = storeLogin(form.email, form.password)

\* C30 as stated: sessionStorage is written only after the email check and an
\* ok answer of the backend, and then the password equals ADMIN_SECRET; a
\* failed attempt leaves sessionStorage as it was.
C30_FlagOnlyForTheSecret ==
  [][writesSessionStorage =>
       (writtenAfterBothChecks /\ form.password = env.ADMIN_SECRET)]_vars

\* C30, amended: sessionStorage is written only after the email check and an
\* ok answer of the backend, and then the password without its leading and
\* trailing whitespace equals ADMIN_SECRET; a failed attempt leaves
\* sessionStorage as it was.
C30_FlagOnlyForTheStrippedSecret ==
  [][writesSessionStorage =>
       (/\ writtenAfterBothChecks
        /\ Str(stripHttpWhitespace(form.password.chars)) = env.ADMIN_SECRET
        /\ Truthy(env.ADMIN_SECRET))]_vars

\* A login went through with a password that has a leading space, and a
\* later attempt with a wrong password has failed without touching it.
C30_Witness ==
  /\ pc = "done"
  /\ sessionStorage.isAdmin = Str(Chars("true"))
  /\ sessionStorage.adminKey = Str(Chars(" s3cret"))
  /\ form.error = Str(Chars("Invalid admin password"))

====
